---------------------------- MODULE Spec2Model ----------------------------
(***************************************************************************)
(* md-to-docx: the line loop of convertMarkdownToDocx (src/index.ts), the  *)
(* table pre-scanner collectTables and the inline formatter                *)
(* processFormattedText (src/helpers.ts).                                  *)
(*                                                                         *)
(* A string is a sequence of one-character strings; a markdown document is *)
(* such a sequence with "\n" between its lines.  A docx Paragraph or Table *)
(* is a record holding what the constructor was given, plus the index      *)
(* (src) of the source line whose handler built it.                        *)
(***************************************************************************)
EXTENDS Integers, Sequences, FiniteSets, TLC

(***************************************************************************)
(* String primitives (the JavaScript String methods the code calls).       *)
(***************************************************************************)
NL == "\n"

\* The backtick character (the character itself cannot be written in a
\* TLA+ string).
Backtick == "BQ"

\* The characters String.prototype.trim removes and the regex class \s matches.
Whitespace == {" ", NL}

SetMin(S) == CHOOSE x \in S : \A y \in S : x <= y

SetMax(S) == CHOOSE x \in S : \A y \in S : x >= y

\* The first index k >= from with s[k] outside C, or Len(s) + 1.
RECURSIVE SkipIn(_, _, _)
SkipIn(s, C, from) ==
  IF from > Len(s) THEN Len(s) + 1
  ELSE IF s[from] \notin C THEN from
  ELSE SkipIn(s, C, from + 1)

\* The last index k <= from with s[k] outside C, or 0.
RECURSIVE SkipBackIn(_, _, _)
SkipBackIn(s, C, from) ==
  IF from < 1 THEN 0
  ELSE IF s[from] \notin C THEN from
  ELSE SkipBackIn(s, C, from - 1)

\* s.trim()
Trim(s) == SubSeq(s, SkipIn(s, Whitespace, 1), SkipBackIn(s, Whitespace, Len(s)))

\* s.startsWith(p)
StartsWith(s, p) == Len(s) >= Len(p) /\ SubSeq(s, 1, Len(p)) = p

\* s.endsWith(p)
EndsWith(s, p) == Len(s) >= Len(p) /\ SubSeq(s, Len(s) - Len(p) + 1, Len(s)) = p

\* s.includes(p)
Includes(s, p) == {k \in 1..(Len(s) - Len(p) + 1) : SubSeq(s, k, k + Len(p) - 1) = p} # {}

\* s.slice(n)
Slice(s, n) == SubSeq(s, n + 1, Len(s))

\* The length of the longest prefix of s made of characters of C
\* (what a regex ^[C]* consumes).
LeadingIn(s, C) == SkipIn(s, C, 1) - 1

\* The smallest index k >= from with s[k] = c, or 0.
RECURSIVE FirstAt(_, _, _)
FirstAt(s, c, from) ==
  IF from > Len(s) THEN 0
  ELSE IF s[from] = c THEN from
  ELSE FirstAt(s, c, from + 1)

\* s.split(sep) for a one-character separator: never empty, "" gives [""].
RECURSIVE Split(_, _)
Split(s, sep) ==
  LET at == FirstAt(s, sep, 1)
  IN  IF at = 0 THEN <<s>>
      ELSE <<SubSeq(s, 1, at - 1)>> \o Split(Slice(s, at), sep)

\* parts.join(sep)
RECURSIVE Join(_, _)
Join(parts, sep) ==
  IF Len(parts) = 0 THEN <<>>
  ELSE IF Len(parts) = 1 THEN parts[1]
  ELSE parts[1] \o <<sep>> \o Join(Tail(parts), sep)

\* arr.filter(Boolean) on an array of strings: the empty strings go.
RECURSIVE FilterNonEmpty(_)
FilterNonEmpty(arr) ==
  IF arr = <<>> THEN <<>>
  ELSE (IF Head(arr) = <<>> THEN <<>> ELSE <<Head(arr)>>) \o FilterNonEmpty(Tail(arr))

\* s with every occurrence of the one-character c removed: s.replace(/c/g, "")
RECURSIVE RemoveAll(_, _)
RemoveAll(s, c) ==
  IF s = <<>> THEN <<>>
  ELSE (IF Head(s) = c THEN <<>> ELSE <<Head(s)>>) \o RemoveAll(Tail(s), c)

\* s with every occurrence of "**" removed, scanning left to right:
\* s.replace(/\*\*/g, "")
RECURSIVE RemoveStarPairs(_)
RemoveStarPairs(s) ==
  IF s = <<>> THEN <<>>
  ELSE IF StartsWith(s, <<"*", "*">>) THEN RemoveStarPairs(Slice(s, 2))
  ELSE <<Head(s)>> \o RemoveStarPairs(Tail(s))

(***************************************************************************)
(* helpers.ts                                                              *)
(***************************************************************************)
\* types.ts, defaultStyle / index.ts, defaultStyle.  lineSpacing is held in
\* hundredths (1.15 is 115).
defaultStyle ==
  [titleSize |-> 32, headingSpacing |-> 240, paragraphSpacing |-> 240, lineSpacing |-> 115]

\* The pattern ^#{level} followed by a space matches s: exactly level hashes, then a space.
HeadingMarkerMatches(s, level) ==
  /\ Len(s) >= level + 1
  /\ \A k \in 1..level : s[k] = "#"
  /\ s[level + 1] = " "

\* processHeading(line, config, style, documentType); config is
\* headingConfigs[level], of which the level is what the node depends on.
processHeading_keepMarker(line, level, style) ==
  [kind    |-> "Heading",
   level   |-> level,
   text    |-> line,
   before  |-> IF level = 1 THEN style.headingSpacing * 2 ELSE style.headingSpacing,
   after2  |-> style.headingSpacing]

processHeading(line, level, style) ==
  [kind    |-> "Heading",
   level   |-> level,
   text    |-> IF HeadingMarkerMatches(line, level) THEN Slice(line, level + 1) ELSE line,
   before  |-> IF level = 1 THEN style.headingSpacing * 2 ELSE style.headingSpacing,
   after2  |-> style.headingSpacing]   \* twice the spacing after: headingSpacing / 2

\* processTable(tableData, documentType)
processTable(tableData, documentType) ==
  [kind    |-> "Table",
   headers |-> tableData.headers,
   rows    |-> tableData.rows,
   fill    |-> IF documentType = "report" THEN "DDDDDD" ELSE "F2F2F2"]

\* processListItem(config, style): config.isNumbered is not read; every item
\* is built with bullet: { level: 0 }.
processListItem(text, boldText, isNumbered, style) ==
  [kind     |-> "ListItem",
   text     |-> text \o (IF boldText # <<>> THEN <<NL>> ELSE <<>>),
   boldText |-> boldText,
   bullet   |-> TRUE]

\* processBlockquote(text, style)
processBlockquote(text, style) ==
  [kind |-> "Blockquote", text |-> text, spacing |-> style.paragraphSpacing]

\* processComment(text, style): the run's text is "Comment: " + text.
processComment(text, style) ==
  [kind |-> "Comment", text |-> <<"Comment: ">> \o text, spacing |-> style.paragraphSpacing]

\* new TextRun({ text, bold, italics, color }) as built by processFormattedText
TextRun(text, bold, italics) ==
  [text |-> text, bold |-> bold, italics |-> italics, code |-> FALSE]

\* processInlineCode(code): a Courier New run; bold and italics are not set.
processInlineCode(code) ==
  [text |-> code, bold |-> FALSE, italics |-> FALSE, code |-> TRUE]

(***************************************************************************)
(* processFormattedText: the state of its character loop is                *)
(* [textRuns, currentText, isBold, isItalic, isInlineCode, j] (j counts    *)
(* from 0 as in the code; line[j] of the code is line[j + 1] here).        *)
(***************************************************************************)
FmtStart ==
  [textRuns |-> <<>>, currentText |-> <<>>, isBold |-> FALSE, isItalic |-> FALSE,
   isInlineCode |-> FALSE, j |-> 0]

\* if (currentText) { push a run of the current flags; currentText = "" }
FmtFlush(st) ==
  IF st.currentText = <<>> THEN st
  ELSE [st EXCEPT
          !.textRuns = Append(@, IF ~st.isInlineCode
                                 THEN TextRun(st.currentText, st.isBold, st.isItalic)
                                 ELSE processInlineCode(st.currentText)),
          !.currentText = <<>>]

\* line[j] is the backtick
FmtAtBacktick(line, st) == line[st.j + 1] = Backtick

\* j + 1 < line.length && line[j] === "*" && line[j + 1] === "*"
FmtAtBold(line, st) ==
  st.j + 1 < Len(line) /\ line[st.j + 1] = "*" /\ line[st.j + 2] = "*"

\* line[j] === "*" && (j === 0 || line[j - 1] !== "*")
\*                 && (j === line.length - 1 || line[j + 1] !== "*")
FmtAtItalic(line, st) ==
  /\ line[st.j + 1] = "*"
  /\ (st.j = 0 \/ line[st.j] # "*")
  /\ (st.j = Len(line) - 1 \/ line[st.j + 2] # "*")

\* currentText += line[j]
FmtAccumulate(line, st) == [st EXCEPT !.currentText = Append(@, line[st.j + 1])]

\* The three toggles and the default branch, each with the j++ of the loop
\* header (the bold branch has its own j++ as well).
FmtToggleCode(st) == [FmtFlush(st) EXCEPT !.isInlineCode = ~@, !.j = @ + 1]

FmtToggleBold(st) == [FmtFlush(st) EXCEPT !.isBold = ~@, !.j = @ + 2]

FmtToggleItalic(st) == [FmtFlush(st) EXCEPT !.isItalic = ~@, !.j = @ + 1]

\* A variant that pushes a run after every character.
FmtPlainChar_flushEach(line, st) == [FmtFlush(FmtAccumulate(line, st)) EXCEPT !.j = @ + 1]

FmtPlainChar(line, st) == [FmtAccumulate(line, st) EXCEPT !.j = @ + 1]

\* Which branch the iteration at st.j takes.
FmtBranch(line, st) ==
  IF FmtAtBacktick(line, st) THEN "code"
  ELSE IF FmtAtBold(line, st) THEN "bold"
  ELSE IF FmtAtItalic(line, st) THEN "italic"
  ELSE "char"

\* One iteration of the for loop.
FmtStep(line, st) ==
  CASE FmtBranch(line, st) = "code" -> FmtToggleCode(st)
    [] FmtBranch(line, st) = "bold" -> FmtToggleBold(st)
    [] FmtBranch(line, st) = "italic" -> FmtToggleItalic(st)
    [] OTHER -> FmtPlainChar(line, st)

RECURSIVE FmtLoop(_, _)
FmtLoop(line, st) == IF st.j >= Len(line) THEN st ELSE FmtLoop(line, FmtStep(line, st))

\* processFormattedText(line): the loop, then the flush of what is left.
processFormattedText(line) == FmtFlush(FmtLoop(line, FmtStart)).textRuns

(***************************************************************************)
(* collectTables                                                           *)
(***************************************************************************)
\* line.split("|").filter(Boolean).map(c => c.trim()) on the raw line
SplitCells(raw) ==
  LET parts == FilterNonEmpty(Split(raw, "|"))
  IN  [k \in 1..Len(parts) |-> Trim(parts[k])]

\* The condition under which the line at index i (from 0) begins a table:
\* the trimmed line starts and ends with "|" and the next line includes "|-".
\* collectTables and the main loop evaluate the same two tests.
IsTableStart(lines, i) ==
  /\ StartsWith(Trim(lines[i + 1]), <<"|">>)
  /\ EndsWith(Trim(lines[i + 1]), <<"|">>)
  /\ i + 1 < Len(lines)
  /\ Includes(lines[i + 2], <<"|", "-">>)

\* The index one past the last body row: j = i + 2, advanced while
\* lines[j].trim().startsWith("|").
RECURSIVE RowsEnd(_, _)
RowsEnd(lines, j) ==
  IF j < Len(lines) /\ StartsWith(Trim(lines[j + 1]), <<"|">>)
  THEN RowsEnd(lines, j + 1) ELSE j

\* The TableData pushed for a table that starts at line i.
TableAt(lines, i) ==
  LET e == RowsEnd(lines, i + 2)
  IN  [headers |-> SplitCells(lines[i + 1]),
       rows    |-> [k \in 1..(e - (i + 2)) |-> SplitCells(lines[i + 2 + k])]]

\* The for loop of collectTables from index i on: every index is visited,
\* the lines of a table just collected included.
RECURSIVE CollectFrom(_, _)
CollectFrom(lines, i) ==
  IF i >= Len(lines) THEN <<>>
  ELSE (IF IsTableStart(lines, i) THEN <<TableAt(lines, i)>> ELSE <<>>)
       \o CollectFrom(lines, i + 1)

collectTables(lines) == CollectFrom(lines, 0)

\* processCodeBlock(code, language, style): one run per line of code.split("\n");
\* the leading whitespace of a line becomes as many no-break spaces.
processCodeBlock(code, language, style) ==
  [kind     |-> "CodeBlock",
   language |-> language,
   rawLines |-> Split(code, NL)]

\* processLinkParagraph(text, url, style)
processLinkParagraph(text, url, style) ==
  [kind |-> "Link", text |-> text, url |-> url]

\* processImage, the value returned when the fetch gave a 2xx response.
ImageParagraphs(altText, imageUrl, style) ==
  <<[kind |-> "Image", url |-> imageUrl, spacing |-> style.paragraphSpacing]>>

\* processImage, the value returned from its catch block.
ImagePlaceholder(altText) ==
  <<[kind |-> "ImageError",
     text |-> <<"[Image could not be displayed: ">> \o altText \o <<"]">>]>>

(***************************************************************************)
(* index.ts: the regular expressions of the line handlers.                 *)
(***************************************************************************)
Digits == {"0", "1", "2", "3", "4", "5", "6", "7", "8", "9"}

\* line.match(/^#+/)[0].length
HashCount(line) == LeadingIn(line, {"#"})

\* line.replace(/^[\s-*]+/, "").trim(): the class holds whitespace, "-" and "*".
StripListMarker(line) == Trim(Slice(line, LeadingIn(line, Whitespace \cup {"-", "*"})))

\* The length of what /^\s*\d+\.\s/ matches at the start of line, or 0.
OrderedPrefix(line) ==
  LET w == LeadingIn(line, Whitespace)
      d == LeadingIn(Slice(line, w), Digits)
  IN  IF /\ d >= 1
         /\ Len(line) >= w + d + 2
         /\ line[w + d + 1] = "."
         /\ line[w + d + 2] \in Whitespace
      THEN w + d + 2 ELSE 0

\* line.replace(/^>\s*/, "").trim()
StripQuoteMarker(line) == Trim(Slice(line, 1 + LeadingIn(Slice(line, 1), Whitespace)))

CommentMarker == <<"C", "O", "M", "M", "E", "N", "T", ":">>

\* line.replace(/^COMMENT:\s*/, "").trim()
StripCommentMarker(line) ==
  Trim(Slice(line, Len(CommentMarker) + LeadingIn(Slice(line, Len(CommentMarker)), Whitespace)))

\* \[([^\]]{minText,})\]\(([^)]+)\) matches s with its "[" at index p.
BracketAt(s, p, minText) ==
  LET q == FirstAt(s, "]", p + 1)
      r == FirstAt(s, ")", q + 2)
  IN  /\ p >= 1 /\ p <= Len(s) /\ s[p] = "["
      /\ q # 0 /\ q - (p + 1) >= minText
      /\ q + 1 <= Len(s) /\ s[q + 1] = "("
      /\ r # 0 /\ r >= q + 3

\* The two groups of the match whose "[" is at p.
BracketGroups(s, p) ==
  LET q == FirstAt(s, "]", p + 1)
      r == FirstAt(s, ")", q + 2)
  IN  [text |-> SubSeq(s, p + 1, q - 1), url |-> SubSeq(s, q + 2, r - 1)]

\* The indices p where /!\[([^\]]*)\]\(([^)]+)\)/ matches (p is the "!").
ImageStarts(line) ==
  {p \in 1..Len(line) : line[p] = "!" /\ BracketAt(line, p + 1, 0)}

\* line.match(/!\[([^\]]*)\]\(([^)]+)\)/): the leftmost match, [altText, imageUrl].
imageMatch(line) ==
  LET g == BracketGroups(line, SetMin(ImageStarts(line)) + 1)
  IN  [altText |-> g.text, imageUrl |-> g.url]

\* The indices p where the bracket part of the link pattern matches.
LinkStarts(line) == {p \in 1..Len(line) : BracketAt(line, p, 1)}

\* /^(?!.*!\[).*\[([^\]]+)\]\(([^)]+)\)/ matches line: no "![" anywhere.
HasLinkMatch(line) == ~Includes(line, <<"!", "[">>) /\ LinkStarts(line) # {}

\* The groups of that match: the greedy .* leaves the last "[" that matches.
linkMatch(line) == BracketGroups(line, SetMax(LinkStarts(line)))

(***************************************************************************)
(* The inputs.  A document is a sequence of lines; the markdown argument   *)
(* is its lines joined by "\n", or a value that is not a string.           *)
(***************************************************************************)
LBlank    == <<>>
LHeading  == <<"#", " ", "T">>
LItem     == <<"-", " ", "a">>
LBoldCont == <<" ", "*", "*", "b", "*", "*">>
LBoldLead == <<"*", "*", "b", "*", "*", " ", "z">>
LOrdered  == <<"1", ".", " ", "c">>
LQuote    == <<">", " ", "q">>
LComment  == <<"C", "O", "M", "M", "E", "N", "T", ":", " ", "k">>
LImage    == <<"!", "[", "p", "]", "(", "u", ")">>
LLink     == <<"[", "t", "]", "(", "u", ")">>
LText     == <<" ", "y">>
LFence    == <<Backtick, Backtick, Backtick>>
LFenceJs  == <<Backtick, Backtick, Backtick, "j", "s">>
LHeader   == <<"|", " ", "A", " ", "|", " ", "B", " ", "|">>
LSep      == <<"|", "-", "|", "-", "|">>
LRow      == <<"|", " ", "1", " ", "|", " ", "2", " ", "|">>
LToc      == <<"[", "T", "O", "C", "]">>
LPageBreak == <<"\\", "p", "a", "g", "e", "b", "r", "e", "a", "k">>
LShortRow == <<"|", " ", "3", " ", "|">>
LPlain    == <<"x">>

\* The lines every document of up to MaxLines lines is drawn from.
CoreLines ==
  {LBlank, LHeading, LItem, LBoldCont, LQuote, LImage, LLink, LText, LFence,
   LHeader, LSep}

\* Lines that occur once in a document, between lines of CoreLines.
RareLines == {LBoldLead, LOrdered, LComment, LFenceJs, LRow, LShortRow, LPlain}

\* The lines of the documents made of tables.
TableLines == {LHeader, LSep, LRow, LPlain}

\* The bounds of the model.
MaxLines == 3

MaxTableLines == 6

MaxText == 3

MaxHashes == 7

MaxItemText == 2

SeqsUpTo(S, lo, hi) == UNION {[1..n -> S] : n \in lo..hi}

CoreDocs == SeqsUpTo(CoreLines, 1, MaxLines)

RareDocs ==
  {a \o <<r>> \o b : a \in SeqsUpTo(CoreLines, 0, 1), r \in RareLines,
                     b \in SeqsUpTo(CoreLines, 0, 1)}

TableDocs == SeqsUpTo(TableLines, 1, MaxTableLines)

\* Lines made of 1..MaxHashes hashes and then up to MaxText characters.
HeadingLines ==
  {[k \in 1..n |-> "#"] \o t : n \in 1..MaxHashes, t \in SeqsUpTo({" ", "a", "#"}, 0, MaxText)}

\* A heading line alone, after a pending list item or after a plain line.
HeadingDocs ==
  {<<h>> : h \in HeadingLines} \cup {<<c, h>> : c \in {LItem, LPlain}, h \in HeadingLines}

\* The two scenarios of the specification and a table that follows a fenced one.
ScenarioDocs ==
  {<<<<"#", " ", "T", "i", "t", "l", "e">>, <<>>, <<"H", "e", "l", "l", "o", " ", "*", "*", "w", "o", "r", "l", "d", "*", "*">>>>,
   <<LHeader, <<"|", "-", "-", "-", "|", "-", "-", "-", "|">>, LRow, <<"|", " ", "3", " ", "|", " ", "4", " ", "|">>>>,
   <<LFence, LHeader, LSep, LFence, <<"|", " ", "C", " ", "|">>, <<"|", "-", "|">>>>,
   <<LHeader, LSep, LRow, LShortRow>>,
   <<LFence, LHeader, LSep, LRow, LFence, <<"|", " ", "C", " ", "|">>, <<"|", "-", "|">>, LPlain>>,
   <<<<"|", " ", "A", " ", "|", " ", "|">>, LSep>>,
   <<<<" ", "|", " ", "A", " ", "|">>, <<"|", "-", "|">>>>,
   <<LToc, LPageBreak>>,
   <<LFenceJs, LText, LFence, LFence>>,
   <<LItem, LToc, LFence, LBlank, LPageBreak>>}

\* An unordered item line alone: a marker and up to MaxItemText characters,
\* the marker characters among them.
ItemDocs ==
  {<<m \o t>> : m \in {<<"-", " ">>, <<"*", " ">>},
                t \in SeqsUpTo({"*", "-", "a", " "}, 1, MaxItemText)}

Docs == CoreDocs \cup RareDocs \cup TableDocs \cup HeadingDocs \cup ScenarioDocs \cup ItemDocs

\* The markdown argument: a string, or a value that is not one (null, a number).
NonString == [isString |-> FALSE, chars |-> <<>>]

Inputs == {NonString} \cup {[isString |-> TRUE, chars |-> Join(d, NL)] : d \in Docs}

\* index.ts, defaultOptions
defaultOptions == [documentType |-> "document", style |-> defaultStyle]

\* Styles with one field changed: out of its range, at the edge of it, or 0.
Styles ==
  {[defaultStyle EXCEPT !.titleSize = 90], [defaultStyle EXCEPT !.titleSize = 72],
   [defaultStyle EXCEPT !.titleSize = 0], [defaultStyle EXCEPT !.headingSpacing = 721],
   [defaultStyle EXCEPT !.paragraphSpacing = 800], [defaultStyle EXCEPT !.lineSpacing = 301],
   [defaultStyle EXCEPT !.lineSpacing = 50]}

\* The options that are not the default ones, and the texts they are tried on.
StyledOptions ==
  {[documentType |-> "report", style |-> defaultStyle]}
    \cup {[documentType |-> "document", style |-> st] : st \in Styles}

StyledInputs == {[isString |-> TRUE, chars |-> Join(d, NL)] : d \in ScenarioDocs}

\* No second call.
NoPair == <<>>

(***************************************************************************)
(* convertMarkdownToDocx                                                   *)
(***************************************************************************)
VARIABLES
  markdown,          \* the argument
  options,           \* the second argument: [documentType, style]
  pc,                \* "call", "loop", "fetch" (awaiting processImage), "catch", "done"
  lines,
  i,
  docChildren,
  inList,
  listItems,
  inCodeBlock,
  codeBlockContent,
  codeBlockLanguage, \* <<>> is undefined (the empty string is never stored)
  tableIndex,
  tables,
  fetch,             \* the fetch of processImage: "none", "pending" or its outcome
  result,            \* what the call returned or threw
  log,               \* the lines whose handler threw, as the per-line catch warns
  pair,              \* two calls in one thread (PairSpec)
  fmtLine,           \* processFormattedText called on its own: the argument,
  fmtPc,             \*   "idle", "loop" or "returned",
  fmtState,          \*   the state of the character loop,
  fmtResult          \*   the runs returned

convVars ==
  <<markdown, options, pc, lines, i, docChildren, inList, listItems, inCodeBlock,
    codeBlockContent, codeBlockLanguage, tableIndex, tables, fetch, result, log>>

fmtVars == <<fmtLine, fmtPc, fmtState, fmtResult>>

vars == <<convVars, fmtVars, pair>>

\* const { style = defaultStyle, documentType = "document" } = options
style == options.style

documentType == options.documentType

\* A node pushed by the handler of line n.
At(n, node) == [src |-> n, node |-> node]

AllAt(n, nodes) == [k \in 1..Len(nodes) |-> At(n, nodes[k])]

Init ==
  /\ \/ markdown \in Inputs /\ options = defaultOptions
     \/ markdown \in StyledInputs /\ options \in StyledOptions
  /\ log = <<>>
  /\ pair = NoPair
  /\ pc = "call"
  /\ lines = <<>>
  /\ i = 0
  /\ docChildren = <<>>
  /\ inList = FALSE
  /\ listItems = <<>>
  /\ inCodeBlock = FALSE
  /\ codeBlockContent = <<>>
  /\ codeBlockLanguage = <<>>
  /\ tableIndex = 0
  /\ tables = <<>>
  /\ fetch = "none"
  /\ result = [kind |-> "none"]
  /\ fmtLine = <<>>
  /\ fmtPc = "idle"
  /\ fmtState = FmtStart
  /\ fmtResult = <<>>

\* A thrown value: an Error of the given class name.
Thrown(name) == [kind |-> "error", name |-> name]

\* A variant that throws whatever it caught.
OuterCatch_rethrow(error) == error

\* The outer catch: a MarkdownConversionError is thrown again as it is, any
\* other value is wrapped into a new one with context { originalError }.
OuterCatch(error) ==
  IF error.name = "MarkdownConversionError" THEN error
  ELSE [kind |-> "error", name |-> "MarkdownConversionError", originalError |-> error.name]

\* markdown.split("\n") on a value without a split method throws a TypeError
\* inside the outer try; the outer catch wraps it.
CallNonString ==
  /\ pc = "call"
  /\ ~markdown.isString
  /\ pc' = "done"
  /\ result' = OuterCatch(Thrown("TypeError"))
  /\ UNCHANGED <<markdown, lines, i, docChildren, inList, listItems, inCodeBlock,
                 codeBlockContent, codeBlockLanguage, tableIndex, tables,
                 fetch, fmtVars, options, log, pair>>

\* The start of the function up to the loop: the lines and the pre-scan.
\* validateInput is not called.
CallString ==
  /\ pc = "call"
  /\ markdown.isString
  /\ lines' = Split(markdown.chars, NL)
  /\ tables' = collectTables(lines')
  /\ pc' = "loop"
  /\ UNCHANGED <<markdown, i, docChildren, inList, listItems, inCodeBlock,
                 codeBlockContent, codeBlockLanguage, tableIndex, result,
                 fetch, fmtVars, options, log, pair>>

(***************************************************************************)
(* One iteration of the for loop: const line = lines[i].trim(), then the   *)
(* first handler whose test holds.                                         *)
(***************************************************************************)
line == Trim(lines[i + 1])

Fence == <<Backtick, Backtick, Backtick>>

\* line.startsWith("|") && line.endsWith("|")
\* && i + 1 < lines.length && lines[i + 1].includes("|-")
IsTableMarker ==
  /\ StartsWith(line, <<"|">>)
  /\ EndsWith(line, <<"|">>)
  /\ i + 1 < Len(lines)
  /\ Includes(lines[i + 2], <<"|", "-">>)

\* The list is flushed as soon as the table marker is seen, also when no
\* pre-scanned table is left and the line falls through to later handlers.
FlushedByTable == IsTableMarker /\ inList

Flushed == docChildren \o listItems

docAfterTable == IF FlushedByTable THEN Flushed ELSE docChildren

inListAfterTable == inList /\ ~IsTableMarker

listAfterTable == IF FlushedByTable THEN <<>> ELSE listItems

\* line.startsWith("- ") || line.startsWith("* ")
IsUnordered == StartsWith(line, <<"-", " ">>) \/ StartsWith(line, <<"*", " ">>)

\* The handler the line at i is dispatched to: the first test that holds.
Handler ==
  LET ln == line
  IN  IF ln = <<>> THEN "blank"
      ELSE IF StartsWith(ln, Fence) THEN "fence"
      ELSE IF inCodeBlock THEN "code"
      ELSE IF StartsWith(ln, <<"#">>) /\ HashCount(ln) >= 1 /\ HashCount(ln) <= 5
        THEN "heading"
      ELSE IF IsTableMarker /\ tableIndex < Len(tables) THEN "table"
      ELSE IF IsUnordered THEN "ulist"
      ELSE IF OrderedPrefix(ln) > 0 THEN "olist"
      ELSE IF StartsWith(ln, <<">", " ">>) THEN "quote"
      ELSE IF StartsWith(ln, CommentMarker) THEN "comment"
      ELSE IF ImageStarts(ln) # {} THEN "image"
      ELSE IF HasLinkMatch(ln) THEN "link"
      ELSE IF ~inListAfterTable THEN "para"
      ELSE "none"

\* The test of handler h itself.  A line is dispatched to h when this holds
\* and no earlier test does.
Matches(h) ==
  IF h = "blank" THEN line = <<>>
  ELSE IF h = "fence" THEN StartsWith(line, Fence)
  ELSE IF h = "code" THEN inCodeBlock
  ELSE IF h = "heading" THEN StartsWith(line, <<"#">>)
  ELSE IF h = "table" THEN IsTableMarker
  ELSE IF h = "ulist" THEN IsUnordered
  ELSE IF h = "olist" THEN OrderedPrefix(line) > 0
  ELSE IF h = "quote" THEN StartsWith(line, <<">", " ">>)
  ELSE IF h = "comment" THEN StartsWith(line, CommentMarker)
  ELSE IF h = "image" THEN ImageStarts(line) # {}
  ELSE IF h = "link" THEN HasLinkMatch(line)
  ELSE TRUE

AtLine(h) == pc = "loop" /\ i < Len(lines) /\ Matches(h) /\ Handler = h

Spacer == [kind |-> "Spacer"]

\* new Paragraph({ children: processFormattedText(line), spacing })
TextParagraph(text) ==
  [kind |-> "Paragraph", runs |-> processFormattedText(text),
   spacing |-> style.paragraphSpacing]

\* A variant that pushes the spacer and leaves the pending items pending.
BlankLine_noFlush ==
  /\ AtLine("blank")
  /\ codeBlockContent' = IF inCodeBlock THEN Append(codeBlockContent, NL) ELSE codeBlockContent
  /\ docChildren' = Append(docChildren, At(i, Spacer))
  /\ i' = i + 1
  /\ UNCHANGED <<markdown, pc, lines, inList, listItems, inCodeBlock, codeBlockLanguage,
                 tableIndex, tables, result,
                 fetch, fmtVars, options, log, pair>>

\* A variant that appends the newline outside a code block as well.
BlankLine_alwaysNewline ==
  /\ AtLine("blank")
  /\ codeBlockContent' = Append(codeBlockContent, NL)
  /\ docChildren' = Append(IF inList THEN Flushed ELSE docChildren, At(i, Spacer))
  /\ listItems' = IF inList THEN <<>> ELSE listItems
  /\ inList' = FALSE
  /\ i' = i + 1
  /\ UNCHANGED <<markdown, pc, lines, inCodeBlock, codeBlockLanguage, tableIndex,
                 tables, result,
                 fetch, fmtVars, options, log, pair>>

\* if (!line): inside a code block a newline is appended; then the list is
\* flushed and a spacer pushed, whatever the mode.
BlankLine ==
  /\ AtLine("blank")
  /\ codeBlockContent' = IF inCodeBlock THEN Append(codeBlockContent, NL) ELSE codeBlockContent
  /\ docChildren' = Append(IF inList THEN Flushed ELSE docChildren, At(i, Spacer))
  /\ listItems' = IF inList THEN <<>> ELSE listItems
  /\ inList' = FALSE
  /\ i' = i + 1
  /\ UNCHANGED <<markdown, pc, lines, inCodeBlock, codeBlockLanguage, tableIndex,
                 tables, result,
                 fetch, fmtVars, options, log, pair>>

\* line.startsWith(three backticks), outside a code block
FenceOpen ==
  /\ AtLine("fence")
  /\ ~inCodeBlock
  /\ inCodeBlock' = TRUE
  /\ codeBlockLanguage' = Trim(Slice(line, 3))
  /\ codeBlockContent' = <<>>
  /\ i' = i + 1
  /\ UNCHANGED <<markdown, pc, lines, docChildren, inList, listItems, tableIndex,
                 tables, result,
                 fetch, fmtVars, options, log, pair>>

\* A variant that does not empty the buffer.
FenceClose_keepBuffer ==
  /\ AtLine("fence")
  /\ inCodeBlock
  /\ inCodeBlock' = FALSE
  /\ docChildren' = Append(docChildren,
        At(i, processCodeBlock(Trim(codeBlockContent), codeBlockLanguage, style)))
  /\ codeBlockLanguage' = <<>>
  /\ i' = i + 1
  /\ UNCHANGED <<markdown, pc, lines, inList, listItems, tableIndex, tables, result,
                 codeBlockContent, fetch, fmtVars, options, log, pair>>

\* line.startsWith(three backticks), inside a code block
FenceClose ==
  /\ AtLine("fence")
  /\ inCodeBlock
  /\ inCodeBlock' = FALSE
  /\ docChildren' = Append(docChildren,
        At(i, processCodeBlock(Trim(codeBlockContent), codeBlockLanguage, style)))
  /\ codeBlockContent' = <<>>
  /\ codeBlockLanguage' = <<>>
  /\ i' = i + 1
  /\ UNCHANGED <<markdown, pc, lines, inList, listItems, tableIndex, tables, result,
                 fetch, fmtVars, options, log, pair>>

\* if (inCodeBlock): codeBlockContent += (codeBlockContent ? "\n" : "") + line
CodeLine ==
  /\ AtLine("code")
  /\ codeBlockContent' =
       codeBlockContent \o (IF codeBlockContent # <<>> THEN <<NL>> ELSE <<>>) \o line
  /\ i' = i + 1
  /\ UNCHANGED <<markdown, pc, lines, docChildren, inList, listItems, inCodeBlock,
                 codeBlockLanguage, tableIndex, tables, result,
                 fetch, fmtVars, options, log, pair>>

\* A variant that flushes the items and leaves list mode as it is.
HeadingLine_keepMode ==
  /\ AtLine("heading")
  /\ docChildren' = Append(IF inList THEN Flushed ELSE docChildren,
                           At(i, processHeading(line, HashCount(line), style)))
  /\ listItems' = IF inList THEN <<>> ELSE listItems
  /\ inList' = inList
  /\ i' = i + 1
  /\ UNCHANGED <<markdown, pc, lines, inCodeBlock, codeBlockContent,
                 codeBlockLanguage, tableIndex, tables, result,
                 fetch, fmtVars, options, log, pair>>

\* Headings of level 1 to 5
HeadingLine ==
  /\ AtLine("heading")
  /\ docChildren' = Append(IF inList THEN Flushed ELSE docChildren,
                           At(i, processHeading(line, HashCount(line), style)))
  /\ listItems' = IF inList THEN <<>> ELSE listItems
  /\ inList' = FALSE
  /\ i' = i + 1
  /\ UNCHANGED <<markdown, pc, lines, inCodeBlock, codeBlockContent,
                 codeBlockLanguage, tableIndex, tables, result,
                 fetch, fmtVars, options, log, pair>>

\* A variant that advances the table cursor by two.
TableLine_doubleAdvance ==
  /\ AtLine("table")
  /\ docChildren' = Append(IF inList THEN Flushed ELSE docChildren,
                           At(i, processTable(tables[tableIndex + 1], documentType)))
  /\ listItems' = IF inList THEN <<>> ELSE listItems
  /\ inList' = FALSE
  /\ i' = i + 2 + Len(tables[tableIndex + 1].rows)
  /\ tableIndex' = tableIndex + 2
  /\ UNCHANGED <<markdown, pc, lines, inCodeBlock, codeBlockContent,
                 codeBlockLanguage, tables, result,
                 fetch, fmtVars, options, log, pair>>

\* A table marker with a pre-scanned table left: the table at the cursor is
\* emitted and i moves past 2 + rows.length lines.
TableLine ==
  /\ AtLine("table")
  /\ docChildren' = Append(IF inList THEN Flushed ELSE docChildren,
                           At(i, processTable(tables[tableIndex + 1], documentType)))
  /\ listItems' = IF inList THEN <<>> ELSE listItems
  /\ inList' = FALSE
  /\ i' = i + 2 + Len(tables[tableIndex + 1].rows)
  /\ tableIndex' = tableIndex + 1
  /\ UNCHANGED <<markdown, pc, lines, inCodeBlock, codeBlockContent,
                 codeBlockLanguage, tables, result,
                 fetch, fmtVars, options, log, pair>>

\* A variant that looks two lines ahead.
HasBoldNext_twoAhead ==
  i + 2 < Len(lines) /\ StartsWith(Trim(lines[i + 3]), <<"*", "*">>)

\* i + 1 < lines.length && lines[i + 1].trim().startsWith("**")
HasBoldNext == i + 1 < Len(lines) /\ StartsWith(Trim(lines[i + 2]), <<"*", "*">>)

\* lines[i + 1].trim().replace(/\*\*/g, "")
BoldNextText == RemoveStarPairs(Trim(lines[i + 2]))

UnorderedItem ==
  /\ AtLine("ulist")
  /\ inList' = TRUE
  /\ listItems' = Append(listItems,
        At(i, processListItem(StripListMarker(line),
                              IF HasBoldNext THEN BoldNextText ELSE <<>>, FALSE, style)))
  /\ i' = IF HasBoldNext THEN i + 2 ELSE i + 1
  /\ UNCHANGED <<markdown, pc, lines, docChildren, inCodeBlock, codeBlockContent,
                 codeBlockLanguage, tableIndex, tables, result,
                 fetch, fmtVars, options, log, pair>>

OrderedItem ==
  /\ AtLine("olist")
  /\ inList' = TRUE
  /\ listItems' = Append(listItems,
        At(i, processListItem(Trim(Slice(line, OrderedPrefix(line))), <<>>, TRUE, style)))
  /\ i' = i + 1
  /\ UNCHANGED <<markdown, pc, lines, docChildren, inCodeBlock, codeBlockContent,
                 codeBlockLanguage, tableIndex, tables, result,
                 fetch, fmtVars, options, log, pair>>

BlockquoteLine ==
  /\ AtLine("quote")
  /\ docChildren' = Append(IF inList THEN Flushed ELSE docChildren,
                           At(i, processBlockquote(StripQuoteMarker(line), style)))
  /\ listItems' = IF inList THEN <<>> ELSE listItems
  /\ inList' = FALSE
  /\ i' = i + 1
  /\ UNCHANGED <<markdown, pc, lines, inCodeBlock, codeBlockContent,
                 codeBlockLanguage, tableIndex, tables, result,
                 fetch, fmtVars, options, log, pair>>

CommentLine ==
  /\ AtLine("comment")
  /\ docChildren' = Append(IF inList THEN Flushed ELSE docChildren,
                           At(i, processComment(StripCommentMarker(line), style)))
  /\ listItems' = IF inList THEN <<>> ELSE listItems
  /\ inList' = FALSE
  /\ i' = i + 1
  /\ UNCHANGED <<markdown, pc, lines, inCodeBlock, codeBlockContent,
                 codeBlockLanguage, tableIndex, tables, result,
                 fetch, fmtVars, options, log, pair>>

\* A variant that starts the fetch and goes on with the next line without
\* awaiting it.
ImageLine_noAwait ==
  /\ AtLine("image")
  /\ fetch' = "pending"
  /\ docChildren' = docAfterTable
  /\ listItems' = listAfterTable
  /\ inList' = inListAfterTable
  /\ i' = i + 1
  /\ UNCHANGED <<markdown, pc, lines, inCodeBlock, codeBlockContent,
                 codeBlockLanguage, tableIndex, tables, result, fmtVars, options, log, pair>>

\* The image handler up to the await inside processImage: fetch(imageUrl)
\* is started and the loop is suspended.  The list is not flushed.
ImageLine ==
  /\ AtLine("image")
  /\ pc' = "fetch"
  /\ fetch' = "pending"
  /\ docChildren' = docAfterTable
  /\ listItems' = listAfterTable
  /\ inList' = inListAfterTable
  /\ UNCHANGED <<markdown, lines, i, inCodeBlock, codeBlockContent,
                 codeBlockLanguage, tableIndex, tables, result, fmtVars, options, log, pair>>

\* How the fetch can end: a 2xx response, another response (processImage
\* throws on !response.ok), a rejected promise, or a throw of the call itself.
FetchOutcomes == {"ok", "not_ok", "rejected", "threw"}

\* The fetch ends.
FetchSettled ==
  /\ pc = "fetch"
  /\ fetch = "pending"
  /\ fetch' \in FetchOutcomes
  /\ UNCHANGED <<markdown, pc, lines, i, docChildren, inList, listItems, inCodeBlock,
                 codeBlockContent, codeBlockLanguage, tableIndex, tables, result,
                 fmtVars, options, log, pair>>

\* A variant whose catch block returns nothing.
processImage_noPlaceholder(altText, imageUrl, outcome) ==
  IF outcome = "ok" THEN ImageParagraphs(altText, imageUrl, style)
  ELSE <<>>

\* processImage(altText, imageUrl, style) for a fetch that ended in outcome:
\* its catch block turns every failure into the placeholder it returns.
processImage(altText, imageUrl, outcome) ==
  IF outcome = "ok" THEN ImageParagraphs(altText, imageUrl, style)
  ELSE ImagePlaceholder(altText)

\* processImage returns and the loop resumes.  Its promise always fulfils,
\* so the catch around the await is not entered; the paragraphs are pushed.
ImageSettled ==
  /\ pc = "fetch"
  /\ fetch \in FetchOutcomes
  /\ docChildren' = docChildren \o
       AllAt(i, processImage(imageMatch(line).altText, imageMatch(line).imageUrl, fetch))
  /\ fetch' = "none"
  /\ pc' = "loop"
  /\ i' = i + 1
  /\ UNCHANGED <<markdown, lines, inList, listItems, inCodeBlock, codeBlockContent,
                 codeBlockLanguage, tableIndex, tables, result, fmtVars, options, log, pair>>

\* The list is not flushed.
LinkLine ==
  /\ AtLine("link")
  /\ docChildren' = Append(docAfterTable,
        At(i, processLinkParagraph(linkMatch(line).text, linkMatch(line).url, style)))
  /\ listItems' = listAfterTable
  /\ inList' = inListAfterTable
  /\ i' = i + 1
  /\ UNCHANGED <<markdown, pc, lines, inCodeBlock, codeBlockContent,
                 codeBlockLanguage, tableIndex, tables, result,
                 fetch, fmtVars, options, log, pair>>

\* if (!inList): a paragraph of the formatted line
ParagraphLine ==
  /\ AtLine("para")
  /\ docChildren' = Append(docAfterTable, At(i, TextParagraph(line)))
  /\ listItems' = listAfterTable
  /\ inList' = inListAfterTable
  /\ i' = i + 1
  /\ UNCHANGED <<markdown, pc, lines, inCodeBlock, codeBlockContent,
                 codeBlockLanguage, tableIndex, tables, result,
                 fetch, fmtVars, options, log, pair>>

\* A variant in which a line that no handler matches ends the call with an
\* error.
UnhandledLine_raises ==
  /\ AtLine("none")
  /\ result' = [kind |-> "error", name |-> "MarkdownConversionError", context |-> "line"]
  /\ pc' = "done"
  /\ UNCHANGED <<markdown, lines, i, docChildren, inList, listItems, inCodeBlock,
                 codeBlockContent, codeBlockLanguage, tableIndex, tables,
                 fetch, fmtVars, options, log, pair>>

\* No handler matched and inList holds: the iteration ends with nothing pushed.
UnhandledLine ==
  /\ AtLine("none")
  /\ i' = i + 1
  /\ UNCHANGED <<markdown, pc, lines, docChildren, inList, listItems, inCodeBlock,
                 codeBlockContent, codeBlockLanguage, tableIndex, tables, result,
                 fetch, fmtVars, options, log, pair>>

\* The handlers that build their node by a helper call inside the per-line
\* try and have no catch of their own.
ThrowingHandlers == {"heading", "fence", "ulist", "olist", "quote", "comment", "link"}

\* How many helper calls of one conversion may throw.
MaxFaults == 1

FlushingHandlers == {"heading", "quote", "comment"}

\* A variant whose catch leaves the loop.
LineThrows_leaveLoop ==
  /\ pc = "loop"
  /\ i < Len(lines)
  /\ Len(log) < MaxFaults
  /\ Handler \in ThrowingHandlers
  /\ Handler = "fence" => inCodeBlock
  /\ log' = Append(log, i)
  /\ i' = Len(lines)
  /\ UNCHANGED <<markdown, pc, lines, docChildren, inList, listItems, inCodeBlock,
                 codeBlockContent, codeBlockLanguage, tableIndex,
                 tables, result, fetch, fmtVars, options, pair>>

\* The helper call of the handler throws.  What the handler did before the
\* call stays done; the per-line catch warns and continues with the next line.
LineThrows ==
  /\ pc = "loop"
  /\ i < Len(lines)
  /\ Len(log) < MaxFaults
  /\ Handler \in ThrowingHandlers
  /\ Handler = "fence" => inCodeBlock
  /\ log' = Append(log, i)
  /\ docChildren' = IF Handler \in FlushingHandlers /\ inList THEN Flushed
                    ELSE IF Handler = "link" THEN docAfterTable
                    ELSE docChildren
  /\ listItems' = IF Handler \in FlushingHandlers /\ inList THEN <<>>
                  ELSE IF Handler = "link" THEN listAfterTable
                  ELSE listItems
  /\ inList' = IF Handler \in FlushingHandlers THEN FALSE
               ELSE IF Handler \in {"ulist", "olist"} THEN TRUE
               ELSE IF Handler = "link" THEN inListAfterTable
               ELSE inList
  /\ inCodeBlock' = IF Handler = "fence" THEN FALSE ELSE inCodeBlock
  /\ i' = IF Handler = "ulist" /\ HasBoldNext THEN i + 2 ELSE i + 1
  /\ UNCHANGED <<markdown, pc, lines, codeBlockContent, codeBlockLanguage, tableIndex,
                 tables, result, fetch, fmtVars, options, pair>>

\* What is pushed after the loop: a code block still open with content, then
\* the list items still pending.
RemainingCode ==
  IF inCodeBlock /\ codeBlockContent # <<>>
  THEN <<At(Len(lines), processCodeBlock(Trim(codeBlockContent), codeBlockLanguage, style))>>
  ELSE <<>>

RemainingItems_none == <<>>

RemainingItems == IF inList /\ Len(listItems) > 0 THEN listItems ELSE <<>>

\* The end of the loop, the Document and Packer.toBlob(doc).
Finish ==
  /\ pc = "loop"
  /\ i >= Len(lines)
  /\ docChildren' = docChildren \o RemainingCode \o RemainingItems
  /\ result' = [kind |-> "blob", children |-> docChildren']
  /\ pc' = "done"
  /\ UNCHANGED <<markdown, lines, i, inList, listItems, inCodeBlock, codeBlockContent,
                 codeBlockLanguage, tableIndex, tables,
                 fetch, fmtVars, options, log, pair>>

\* What new Document(...) or Packer.toBlob(doc) may throw inside the outer
\* try: an Error, or a value that is a MarkdownConversionError already.
AssemblyErrors ==
  {Thrown("Error"),
   [kind |-> "error", name |-> "MarkdownConversionError", context |-> "assembly"]}

\* The end of the loop with an assembly that throws: control enters the outer
\* catch with the thrown value.
AssemblyThrows ==
  /\ pc = "loop"
  /\ i >= Len(lines)
  /\ docChildren' = docChildren \o RemainingCode \o RemainingItems
  /\ result' \in AssemblyErrors
  /\ pc' = "catch"
  /\ UNCHANGED <<markdown, lines, i, inList, listItems, inCodeBlock, codeBlockContent,
                 codeBlockLanguage, tableIndex, tables,
                 fetch, fmtVars, options, log, pair>>

\* The outer catch throws to the caller.
Caught ==
  /\ pc = "catch"
  /\ result' = OuterCatch(result)
  /\ pc' = "done"
  /\ UNCHANGED <<markdown, lines, i, docChildren, inList, listItems, inCodeBlock,
                 codeBlockContent, codeBlockLanguage, tableIndex, tables,
                 fetch, fmtVars, options, log, pair>>

(***************************************************************************)
(* processFormattedText called on a line of its own, one loop iteration    *)
(* per step.                                                               *)
(***************************************************************************)
MaxFmtLen == 7

MaxPlainLen == 4

\* Lines of markup characters, and lines without any.
FmtLines ==
  SeqsUpTo({"*", Backtick, "a"}, 0, MaxFmtLen) \cup SeqsUpTo({"a", " ", "b"}, 1, MaxPlainLen)

FmtInit ==
  /\ markdown = NonString
  /\ options = defaultOptions
  /\ log = <<>>
  /\ pair = NoPair
  /\ pc = "done"
  /\ lines = <<>>
  /\ i = 0
  /\ docChildren = <<>>
  /\ inList = FALSE
  /\ listItems = <<>>
  /\ inCodeBlock = FALSE
  /\ codeBlockContent = <<>>
  /\ codeBlockLanguage = <<>>
  /\ tableIndex = 0
  /\ tables = <<>>
  /\ fetch = "none"
  /\ result = [kind |-> "none"]
  /\ fmtLine \in FmtLines
  /\ fmtPc = "loop"
  /\ fmtState = FmtStart
  /\ fmtResult = <<>>

FmtAt(b) == fmtPc = "loop" /\ fmtState.j < Len(fmtLine) /\ FmtBranch(fmtLine, fmtState) = b

FmtBacktick ==
  /\ FmtAt("code")
  /\ fmtState' = FmtToggleCode(fmtState)
  /\ UNCHANGED <<convVars, pair, fmtLine, fmtPc, fmtResult>>

FmtBold ==
  /\ FmtAt("bold")
  /\ fmtState' = FmtToggleBold(fmtState)
  /\ UNCHANGED <<convVars, pair, fmtLine, fmtPc, fmtResult>>

FmtItalic ==
  /\ FmtAt("italic")
  /\ fmtState' = FmtToggleItalic(fmtState)
  /\ UNCHANGED <<convVars, pair, fmtLine, fmtPc, fmtResult>>

FmtChar ==
  /\ FmtAt("char")
  /\ fmtState' = FmtPlainChar(fmtLine, fmtState)
  /\ UNCHANGED <<convVars, pair, fmtLine, fmtPc, fmtResult>>

\* After the loop: the last flush and the return.
FmtReturn ==
  /\ fmtPc = "loop"
  /\ fmtState.j >= Len(fmtLine)
  /\ fmtState' = FmtFlush(fmtState)
  /\ fmtResult' = fmtState'.textRuns
  /\ fmtPc' = "returned"
  /\ UNCHANGED <<convVars, pair, fmtLine>>

FmtNext == FmtBacktick \/ FmtBold \/ FmtItalic \/ FmtChar \/ FmtReturn

FmtSpec == FmtInit /\ [][FmtNext]_vars

Next ==
  \/ CallNonString
  \/ CallString
  \/ BlankLine
  \/ FenceOpen
  \/ FenceClose
  \/ CodeLine
  \/ HeadingLine
  \/ TableLine
  \/ UnorderedItem
  \/ OrderedItem
  \/ BlockquoteLine
  \/ CommentLine
  \/ ImageLine
  \/ FetchSettled
  \/ ImageSettled
  \/ LinkLine
  \/ ParagraphLine
  \/ UnhandledLine
  \/ Finish

Spec == Init /\ [][Next]_vars

(***************************************************************************)
(* The conversion with injected faults: a helper call of a line handler or *)
(* the assembly of the document may throw.                                 *)
(***************************************************************************)
MaxFaultLines == 3

FaultLines == {LBlank, LHeading, LItem, LBoldCont, LQuote, LImage, LLink, LText, LFence}

\* Texts of the lines above, texts with one of the rarer lines, the scenarios
\* and a table after a heading and a list item.
FaultDocs ==
  SeqsUpTo(FaultLines, 1, MaxFaultLines) \cup RareDocs \cup ScenarioDocs
    \cup {<<LHeading, LItem, LHeader, LSep, LRow, LText>>}

FaultInputs == {NonString} \cup {[isString |-> TRUE, chars |-> Join(d, NL)] : d \in FaultDocs}

FaultInit ==
  /\ markdown \in FaultInputs
  /\ options = defaultOptions
  /\ pc = "call"
  /\ lines = <<>>
  /\ i = 0
  /\ docChildren = <<>>
  /\ inList = FALSE
  /\ listItems = <<>>
  /\ inCodeBlock = FALSE
  /\ codeBlockContent = <<>>
  /\ codeBlockLanguage = <<>>
  /\ tableIndex = 0
  /\ tables = <<>>
  /\ fetch = "none"
  /\ result = [kind |-> "none"]
  /\ log = <<>>
  /\ pair = NoPair
  /\ fmtLine = <<>>
  /\ fmtPc = "idle"
  /\ fmtState = FmtStart
  /\ fmtResult = <<>>

FaultNext == Next \/ LineThrows \/ AssemblyThrows \/ Caught

FaultSpec == FaultInit /\ [][FaultNext]_vars

(***************************************************************************)
(* Properties of the conversion, checked under Spec unless said otherwise.  *)
(***************************************************************************)

\* C1: every Table node emitted at a table-marker line i is built from the
\* table structure that collectTables detects starting at that same line i,
\* so the Nth table scanned is the Nth table consumed.
C1_TableConsumedIsTableScanned ==
  \A k \in 1..Len(docChildren) :
    docChildren[k].node.kind = "Table" =>
      docChildren[k].node =
        processTable(TableAt(lines, docChildren[k].src), documentType)

\* A line of a pipe block, and a separator line.
IsPipeLine(l) == StartsWith(Trim(l), <<"|">>)

IsSeparator(l) == Includes(l, <<"|", "-">>)

\* The pipe tables of the text are well-formed: every maximal run of pipe
\* lines is a header that ends with "|", one separator, and body rows with
\* as many cells as the header; "|-" occurs in the separators only.
WellFormedTables(ls) ==
  \A n \in 1..Len(ls) :
    /\ ~IsPipeLine(ls[n]) => ~IsSeparator(ls[n])
    /\ (IsPipeLine(ls[n]) /\ (n = 1 \/ ~IsPipeLine(ls[n - 1]))) =>
         /\ IsTableStart(ls, n - 1)
         /\ ~IsSeparator(ls[n])
         /\ \A m \in (n + 2)..RowsEnd(ls, n - 1) :
              /\ ~IsSeparator(ls[m])
              /\ Len(SplitCells(ls[m])) = Len(SplitCells(ls[n]))

TableNodes == {k \in 1..Len(docChildren) : docChildren[k].node.kind = "Table"}

\* C2: when the pipe tables of the input are well-formed, at the end of the
\* conversion tableIndex equals tables.length: as many Table nodes were
\* emitted as collectTables returned, none left over and none skipped.
C2_EveryScannedTableConsumed ==
  (pc = "done" /\ markdown.isString /\ WellFormedTables(lines)) =>
    /\ tableIndex = Len(tables)
    /\ Cardinality(TableNodes) = Len(tables)

\* The same without a code fence in the text: holds.
C2_OutsideCodeFences ==
  (/\ pc = "done" /\ markdown.isString /\ WellFormedTables(lines)
   /\ \A n \in 1..Len(lines) : ~StartsWith(Trim(lines[n]), Fence)) =>
    /\ tableIndex = Len(tables)
    /\ Cardinality(TableNodes) = Len(tables)
    /\ C1_TableConsumedIsTableScanned

\* C3: once a line that is not a list item has produced a node, every list
\* item of an earlier line stands in the output before that node, in the
\* original order: none is still pending and none comes after it.
C3_ListFlushedBeforeNextNode ==
  \A k \in 1..Len(docChildren) :
    docChildren[k].node.kind # "ListItem" =>
      /\ \A m \in 1..Len(listItems) : listItems[m].src > docChildren[k].src
      /\ \A p \in 1..Len(docChildren) :
           (docChildren[p].node.kind = "ListItem" /\ docChildren[p].src < docChildren[k].src)
             => p < k

\* The positions in a sequence of nodes of those pushed for line n.
NodesOf(nodes, n) == {k \in 1..Len(nodes) : nodes[k].src = n}

\* The line at the cursor is N hashes, one space and a text, N in 1..5.
AtHeadingOfLevel(N) ==
  /\ pc = "loop" /\ i < Len(lines) /\ ~inCodeBlock
  /\ HashCount(lines[i + 1]) = N
  /\ Len(lines[i + 1]) > N
  /\ lines[i + 1][N + 1] = " "

\* C4: a line of N hashes (N in 1..5), one space and a text is converted to
\* exactly one Heading node of level N whose text is that text, the marker
\* removed once (compared up to surrounding whitespace).
C4_HeadingLevelAndText ==
  [][\A N \in 1..5 :
       AtHeadingOfLevel(N) =>
         /\ Cardinality(NodesOf(docChildren', i)) = 1
         /\ \A k \in NodesOf(docChildren', i) :
              /\ docChildren'[k].node.kind = "Heading"
              /\ docChildren'[k].node.level = N
              /\ Trim(docChildren'[k].node.text) = Trim(Slice(lines[i + 1], N + 1))]_vars

\* The same for a text that is not blank: holds.
C4_NonBlankText ==
  [][\A N \in 1..5 :
       (AtHeadingOfLevel(N) /\ Trim(Slice(lines[i + 1], N + 1)) # <<>>) =>
         /\ Cardinality(NodesOf(docChildren', i)) = 1
         /\ \A k \in NodesOf(docChildren', i) :
              /\ docChildren'[k].node.kind = "Heading"
              /\ docChildren'[k].node.level = N
              /\ Trim(docChildren'[k].node.text) = Trim(Slice(lines[i + 1], N + 1))]_vars

\* C5: a line that begins with six or more hashes is emitted as a Paragraph
\* node, never as a Heading and never as nothing, and the conversion goes on
\* without raising, also when list items are pending.
C5_DeepHeadingIsParagraph ==
  [][(pc = "loop" /\ i < Len(lines) /\ ~inCodeBlock /\ HashCount(line) >= 6) =>
       /\ Cardinality(NodesOf(docChildren', i)) = 1
       /\ \A k \in NodesOf(docChildren', i) : docChildren'[k].node.kind = "Paragraph"
       /\ pc' = "loop"
       /\ result' = result]_vars

\* The same while no list is open: holds.
C5_OutsideLists ==
  [][(pc = "loop" /\ i < Len(lines) /\ ~inCodeBlock /\ ~inList /\ HashCount(line) >= 6) =>
       /\ Cardinality(NodesOf(docChildren', i)) = 1
       /\ \A k \in NodesOf(docChildren', i) : docChildren'[k].node.kind = "Paragraph"
       /\ pc' = "loop"
       /\ result' = result]_vars

(***************************************************************************)
(* Properties of processFormattedText, checked under FmtSpec.              *)
(***************************************************************************)

\* The texts of the runs, concatenated in order.
RECURSIVE RunTexts(_)
RunTexts(runs) == IF runs = <<>> THEN <<>> ELSE Head(runs).text \o RunTexts(Tail(runs))

Delimiters == {"*", Backtick}

HasNoDelimiter(s) == \A k \in 1..Len(s) : s[k] \notin Delimiters

\* C6: the texts of the runs processFormattedText returns, concatenated in
\* order, are the line with every backtick and every marker asterisk removed:
\* the delimiters neither survive in a run nor take ordinary text with them.
C6_RunsAreLineWithoutMarkup ==
  fmtPc = "returned" =>
    /\ RunTexts(fmtResult) = RemoveAll(RemoveAll(fmtLine, "*"), Backtick)
    /\ \A k \in 1..Len(fmtResult) : HasNoDelimiter(fmtResult[k].text)

\* The same for lines that have no three asterisks in a row: holds.
C6_WithoutTripleAsterisk ==
  (fmtPc = "returned" /\ ~Includes(fmtLine, <<"*", "*", "*">>)) =>
    /\ RunTexts(fmtResult) = RemoveAll(RemoveAll(fmtLine, "*"), Backtick)
    /\ \A k \in 1..Len(fmtResult) : HasNoDelimiter(fmtResult[k].text)

IsTripleWrapped(l) ==
  /\ Len(l) >= 7
  /\ SubSeq(l, 1, 3) = <<"*", "*", "*">>
  /\ SubSeq(l, Len(l) - 2, Len(l)) = <<"*", "*", "*">>
  /\ HasNoDelimiter(SubSeq(l, 4, Len(l) - 3))

\* C8: a text wrapped in triple asterisks comes back as a run of that text
\* with both the bold and the italic flag set.
C8_TripleAsteriskIsBoldItalic ==
  (fmtPc = "returned" /\ IsTripleWrapped(fmtLine)) =>
    \E k \in 1..Len(fmtResult) :
      /\ fmtResult[k].text = SubSeq(fmtLine, 4, Len(fmtLine) - 3)
      /\ fmtResult[k].bold
      /\ fmtResult[k].italics

(***************************************************************************)
(* Properties of the image fetch and of the input check, under Spec.       *)
(***************************************************************************)

FetchFailures == {"not_ok", "rejected", "threw"}

\* C9: when the fetch of an image line rejects, throws or answers with a
\* status that is not 2xx, the conversion does not raise: exactly one
\* placeholder paragraph that contains the alt text is pushed in place of the
\* image, and the loop goes on with the next line.
C9_FailedImageIsPlaceholder ==
  [][(pc = "fetch" /\ fetch \in FetchFailures) =>
       /\ Len(docChildren') = Len(docChildren) + 1
       /\ SubSeq(docChildren', 1, Len(docChildren)) = docChildren
       /\ docChildren'[Len(docChildren')].src = i
       /\ docChildren'[Len(docChildren')].node.kind = "ImageError"
       /\ Includes(docChildren'[Len(docChildren')].node.text, imageMatch(line).altText)
       /\ pc' = "loop"
       /\ i' = i + 1
       /\ result' = [kind |-> "none"]]_vars

\* A placeholder stands in the output and a node of a later line follows it,
\* in a conversion that returned its blob.
C9_PlaceholderThenLaterLine ==
  /\ pc = "done"
  /\ result.kind = "blob"
  /\ \E k \in 1..Len(docChildren) :
       /\ docChildren[k].node.kind = "ImageError"
       /\ \E m \in (k + 1)..Len(docChildren) : docChildren[m].src > docChildren[k].src

\* C10: for the empty string and for a markdown argument that is not a
\* string the call raises MarkdownConversionError before any line is parsed.
C10_InvalidInputRaises ==
  markdown.chars = <<>> =>
    /\ pc \in {"call", "done"}
    /\ pc = "done" =>
         /\ result.kind = "error"
         /\ result.name = "MarkdownConversionError"
         /\ docChildren = <<>>

\* The same for the arguments that are not strings: holds.
C10_NonStringRaises ==
  ~markdown.isString =>
    /\ pc \in {"call", "done"}
    /\ pc = "done" =>
         /\ result.kind = "error"
         /\ result.name = "MarkdownConversionError"
         /\ docChildren = <<>>

(***************************************************************************)
(* validateInput (index.ts).  convertMarkdownToDocx does not call it.      *)
(***************************************************************************)
ValidationError(field) ==
  [kind |-> "error", name |-> "MarkdownConversionError", context |-> field]

\* validateInput(markdown, options): the error it throws, or [kind |-> "ok"].
\* Each range test is guarded by the truthiness of the field, so 0 passes.
validateInput(md, opts) ==
  IF md.chars = <<>> \/ ~md.isString THEN ValidationError("none")
  ELSE IF opts.style.titleSize # 0
          /\ (opts.style.titleSize < 8 \/ opts.style.titleSize > 72)
    THEN ValidationError("titleSize")
  ELSE IF opts.style.headingSpacing # 0
          /\ (opts.style.headingSpacing < 0 \/ opts.style.headingSpacing > 720)
    THEN ValidationError("headingSpacing")
  ELSE IF opts.style.paragraphSpacing # 0
          /\ (opts.style.paragraphSpacing < 0 \/ opts.style.paragraphSpacing > 720)
    THEN ValidationError("paragraphSpacing")
  ELSE IF opts.style.lineSpacing # 0
          /\ (opts.style.lineSpacing < 100 \/ opts.style.lineSpacing > 300)
    THEN ValidationError("lineSpacing")
  ELSE [kind |-> "ok"]

\* The fields of a style that lie outside the ranges 8..72, 0..720, 0..720
\* and 1..3 (lineSpacing in hundredths).
OutOfRangeFields(st) ==
  (IF st.titleSize < 8 \/ st.titleSize > 72 THEN {"titleSize"} ELSE {})
    \cup (IF st.headingSpacing < 0 \/ st.headingSpacing > 720 THEN {"headingSpacing"} ELSE {})
    \cup (IF st.paragraphSpacing < 0 \/ st.paragraphSpacing > 720
          THEN {"paragraphSpacing"} ELSE {})
    \cup (IF st.lineSpacing < 100 \/ st.lineSpacing > 300 THEN {"lineSpacing"} ELSE {})

\* C11: a call with a style whose titleSize is outside 8..72, whose
\* headingSpacing or paragraphSpacing is outside 0..720 or whose lineSpacing
\* is outside 1..3 raises a validation error whose context names the field,
\* and no document is produced.
C11_OutOfRangeStyleRaises ==
  (markdown.isString /\ markdown.chars # <<>> /\ OutOfRangeFields(options.style) # {}) =>
    /\ pc \in {"call", "done"}
    /\ pc = "done" =>
         /\ result.kind = "error"
         /\ result.name = "MarkdownConversionError"
         /\ result.context \in OutOfRangeFields(options.style)

(***************************************************************************)
(* Properties of the outcome of a call, under Spec.                        *)
(***************************************************************************)

\* C12: a call ends in exactly one of two outcomes, the blob of the whole
\* document or one MarkdownConversionError, and the outcome is final; what
\* the assembly throws is wrapped into a MarkdownConversionError that holds
\* the original error unless it is one already, which is thrown unchanged.
C12_BlobOrConversionError ==
  [][/\ pc' = "done" =>
          \/ result'.kind = "blob" /\ result'.children = docChildren'
          \/ result'.kind = "error" /\ result'.name = "MarkdownConversionError"
     /\ pc = "catch" =>
          /\ pc' = "done"
          /\ result.name = "MarkdownConversionError" => result' = result
          /\ result.name # "MarkdownConversionError" =>
               /\ result'.name = "MarkdownConversionError"
               /\ result'.originalError = result.name
     /\ pc # "done"]_vars

\* The call has thrown the wrapper of an Error thrown by the assembly.
C12_AssemblyErrorWrapped ==
  /\ pc = "done"
  /\ markdown.isString
  /\ result = [kind |-> "error", name |-> "MarkdownConversionError", originalError |-> "Error"]

(***************************************************************************)
(* The line loop as a function of the locals of a call, held in a record   *)
(* c = [lines, tables, options, i, docChildren, inList, listItems,         *)
(* inCodeBlock, codeBlockContent, codeBlockLanguage, tableIndex].  It is    *)
(* used to run a call alone and to run two calls side by side.             *)
(***************************************************************************)
\* The locals after the start of the function up to the loop.
Started(md, opts) ==
  [lines |-> Split(md.chars, NL), tables |-> collectTables(Split(md.chars, NL)),
   options |-> opts, i |-> 0, docChildren |-> <<>>, inList |-> FALSE, listItems |-> <<>>,
   inCodeBlock |-> FALSE, codeBlockContent |-> <<>>, codeBlockLanguage |-> <<>>,
   tableIndex |-> 0]

\* The locals of the call of Spec.
Locals ==
  [lines |-> lines, tables |-> tables, options |-> options, i |-> i,
   docChildren |-> docChildren, inList |-> inList, listItems |-> listItems,
   inCodeBlock |-> inCodeBlock, codeBlockContent |-> codeBlockContent,
   codeBlockLanguage |-> codeBlockLanguage, tableIndex |-> tableIndex]

\* const line = lines[i].trim()
LineOf(c) == Trim(c.lines[c.i + 1])

MarkerAt(c) ==
  /\ StartsWith(LineOf(c), <<"|">>)
  /\ EndsWith(LineOf(c), <<"|">>)
  /\ c.i + 1 < Len(c.lines)
  /\ Includes(c.lines[c.i + 2], <<"|", "-">>)

\* The handler the line at c.i is dispatched to.
HandlerOf(c) ==
  LET ln == LineOf(c)
  IN  IF ln = <<>> THEN "blank"
      ELSE IF StartsWith(ln, Fence) THEN "fence"
      ELSE IF c.inCodeBlock THEN "code"
      ELSE IF StartsWith(ln, <<"#">>) /\ HashCount(ln) <= 5 THEN "heading"
      ELSE IF MarkerAt(c) /\ c.tableIndex < Len(c.tables) THEN "table"
      ELSE IF StartsWith(ln, <<"-", " ">>) \/ StartsWith(ln, <<"*", " ">>) THEN "ulist"
      ELSE IF OrderedPrefix(ln) > 0 THEN "olist"
      ELSE IF StartsWith(ln, <<">", " ">>) THEN "quote"
      ELSE IF StartsWith(ln, CommentMarker) THEN "comment"
      ELSE IF ImageStarts(ln) # {} THEN "image"
      ELSE IF HasLinkMatch(ln) THEN "link"
      ELSE IF ~(c.inList /\ ~MarkerAt(c)) THEN "para"
      ELSE "none"

\* if (inList) { docChildren.push(...listItems); listItems = []; inList = false }
FlushList(c) ==
  IF c.inList
  THEN [c EXCEPT !.docChildren = @ \o c.listItems, !.listItems = <<>>, !.inList = FALSE]
  ELSE c

\* docChildren.push(node); continue
PushNode(c, node) == [c EXCEPT !.docChildren = Append(@, At(c.i, node)), !.i = @ + 1]

\* listItems.push(item); continue, after extra lines were consumed
PushItem(c, item, extra) ==
  [c EXCEPT !.inList = TRUE, !.listItems = Append(@, At(c.i, item)), !.i = @ + 1 + extra]

BoldNextOf(c) ==
  c.i + 1 < Len(c.lines) /\ StartsWith(Trim(c.lines[c.i + 2]), <<"*", "*">>)

\* One iteration of the for loop on the locals c; outcome is how the fetch
\* ends when the line is an image.
Handled(c, outcome) ==
  LET ln == LineOf(c)
      h  == HandlerOf(c)
      st == c.options.style
      m  == IF MarkerAt(c) THEN FlushList(c) ELSE c
  IN  CASE h = "blank" ->
             PushNode([FlushList(c) EXCEPT !.codeBlockContent =
                         IF c.inCodeBlock THEN Append(@, NL) ELSE @], Spacer)
        [] h = "fence" ->
             IF ~c.inCodeBlock
             THEN [c EXCEPT !.inCodeBlock = TRUE, !.codeBlockLanguage = Trim(Slice(ln, 3)),
                            !.codeBlockContent = <<>>, !.i = @ + 1]
             ELSE [PushNode(c, processCodeBlock(Trim(c.codeBlockContent),
                                                c.codeBlockLanguage, st))
                     EXCEPT !.inCodeBlock = FALSE, !.codeBlockContent = <<>>,
                            !.codeBlockLanguage = <<>>]
        [] h = "code" ->
             [c EXCEPT !.codeBlockContent = @ \o (IF @ # <<>> THEN <<NL>> ELSE <<>>) \o ln,
                       !.i = @ + 1]
        [] h = "heading" -> PushNode(FlushList(c), processHeading(ln, HashCount(ln), st))
        [] h = "table" ->
             [PushNode(FlushList(c),
                       processTable(c.tables[c.tableIndex + 1], c.options.documentType))
                EXCEPT !.i = c.i + 2 + Len(c.tables[c.tableIndex + 1].rows),
                       !.tableIndex = @ + 1]
        [] h = "ulist" ->
             PushItem(c, processListItem(StripListMarker(ln),
                                         IF BoldNextOf(c)
                                         THEN RemoveStarPairs(Trim(c.lines[c.i + 2]))
                                         ELSE <<>>, FALSE, st),
                      IF BoldNextOf(c) THEN 1 ELSE 0)
        [] h = "olist" ->
             PushItem(c, processListItem(Trim(Slice(ln, OrderedPrefix(ln))), <<>>, TRUE, st), 0)
        [] h = "quote" -> PushNode(FlushList(c), processBlockquote(StripQuoteMarker(ln), st))
        [] h = "comment" -> PushNode(FlushList(c), processComment(StripCommentMarker(ln), st))
        [] h = "image" ->
             [m EXCEPT !.docChildren = @ \o AllAt(c.i, processImage(imageMatch(ln).altText,
                                                                imageMatch(ln).imageUrl, outcome)),
                       !.i = @ + 1]
        [] h = "link" ->
             PushNode(m, processLinkParagraph(linkMatch(ln).text, linkMatch(ln).url, st))
        [] h = "para" ->
             PushNode(m, [kind |-> "Paragraph", runs |-> processFormattedText(ln),
                          spacing |-> st.paragraphSpacing])
        [] OTHER -> [c EXCEPT !.i = @ + 1]

\* After the loop: the code block still open and the items still pending.
Remaining(c) ==
  (IF c.inCodeBlock /\ c.codeBlockContent # <<>>
   THEN <<At(Len(c.lines), processCodeBlock(Trim(c.codeBlockContent), c.codeBlockLanguage,
                                            c.options.style))>>
   ELSE <<>>)
    \o (IF c.inList /\ Len(c.listItems) > 0 THEN c.listItems ELSE <<>>)

\* The children a call hands to the Document when it runs from c on, its
\* fetches ending as outcomes says, one entry per image line in order.
RECURSIVE RunAlone(_, _)
RunAlone(c, outcomes) ==
  IF c.i >= Len(c.lines) THEN c.docChildren \o Remaining(c)
  ELSE IF HandlerOf(c) = "image"
    THEN RunAlone(Handled(c, Head(outcomes)), Tail(outcomes))
  ELSE RunAlone(Handled(c, "ok"), outcomes)

\* Spec and the function agree: a step of the loop in which nothing throws
\* is Handled.
StepIsHandled ==
  [][(pc \in {"loop", "fetch"} /\ pc' = "loop" /\ log' = log) =>
       Locals' = Handled(Locals, IF pc = "fetch" THEN fetch ELSE "ok")]_vars

\* How the fetches of the image lines ended, read off the image nodes.
OutcomeOfNode(n) == IF n.node.kind = "Image" THEN "ok" ELSE "not_ok"

RECURSIVE OutcomesOf(_)
OutcomesOf(nodes) ==
  IF nodes = <<>> THEN <<>>
  ELSE (IF Head(nodes).node.kind \in {"Image", "ImageError"}
        THEN <<OutcomeOfNode(Head(nodes))>> ELSE <<>>) \o OutcomesOf(Tail(nodes))

\* nodes without those pushed for the lines in the sequence skipped.
RECURSIVE WithoutLines(_, _)
WithoutLines(nodes, skipped) ==
  IF nodes = <<>> THEN <<>>
  ELSE (IF \E k \in 1..Len(skipped) : skipped[k] = Head(nodes).src
        THEN <<>> ELSE <<Head(nodes)>>) \o WithoutLines(Tail(nodes), skipped)

\* C13: an error thrown while one line is handled is caught at the per-line
\* boundary; the call does not raise and goes on, and the nodes handed to the
\* document are those of the same call without the error, less the nodes of
\* the failing line.
C13_FailedLineIsSkipped ==
  /\ (log # <<>> /\ pc \in {"loop", "fetch"}) => result = [kind |-> "none"]
  /\ (pc \in {"catch", "done"} /\ markdown.isString) =>
       docChildren = WithoutLines(RunAlone(Started(markdown, options), OutcomesOf(docChildren)),
                                  log)

\* A call returned its blob after the handler of a line threw, with a node
\* of a later line in it.
C13_LaterLineAfterFailure ==
  /\ pc = "done"
  /\ result.kind = "blob"
  /\ log # <<>>
  /\ \E k \in 1..Len(docChildren) : docChildren[k].src > log[1]

(***************************************************************************)
(* Properties of tables and of whole conversions, under Spec.              *)
(***************************************************************************)

\* The cursor is at the first line of a well-formed pipe table block outside
\* a code block: a header, one separator, and body rows that are no
\* separators and have as many cells as the header.
AtWellFormedTable ==
  /\ pc = "loop" /\ i < Len(lines) /\ ~inCodeBlock
  /\ i = 0 \/ ~IsPipeLine(lines[i])
  /\ IsTableStart(lines, i)
  /\ ~IsSeparator(lines[i + 1])
  /\ \A m \in (i + 3)..RowsEnd(lines, i) :
       /\ ~IsSeparator(lines[m])
       /\ Len(SplitCells(lines[m])) = Len(SplitCells(lines[i + 1]))

\* C14: a well-formed pipe table block yields exactly one Table node whose
\* headers are the trimmed header cells and whose rows are the trimmed cells
\* of its body rows, in order; its separator and body lines yield no node.
\* Stated for texts all of whose pipe blocks are well-formed.
C14_WellFormedTableNode ==
  [][(AtWellFormedTable /\ WellFormedTables(lines)) =>
       /\ Cardinality(NodesOf(docChildren', i)) = 1
       /\ \A k \in NodesOf(docChildren', i) :
            /\ docChildren'[k].node.kind = "Table"
            /\ docChildren'[k].node.headers = TableAt(lines, i).headers
            /\ docChildren'[k].node.rows = TableAt(lines, i).rows
       /\ i' = RowsEnd(lines, i)]_vars

\* The same while no table was scanned before line i that the loop did not
\* consume, as is the case in a text without code fences: holds.
C14_FirstUnconsumedTable ==
  [][(AtWellFormedTable /\ \A n \in 1..Len(lines) : ~StartsWith(Trim(lines[n]), Fence)
        /\ WellFormedTables(lines)) =>
       /\ Cardinality(NodesOf(docChildren', i)) = 1
       /\ \A k \in NodesOf(docChildren', i) :
            /\ docChildren'[k].node.kind = "Table"
            /\ docChildren'[k].node.headers = TableAt(lines, i).headers
            /\ docChildren'[k].node.rows = TableAt(lines, i).rows
       /\ i' = RowsEnd(lines, i)]_vars

\* The text "# Title", a blank line, "Hello **world**".
TitleHello ==
  [isString |-> TRUE,
   chars |-> Join(<<<<"#", " ", "T", "i", "t", "l", "e">>, <<>>,
                    <<"H", "e", "l", "l", "o", " ", "*", "*", "w", "o", "r", "l", "d", "*", "*">>>>, NL)]

\* C15: converting "# Title\n\nHello **world**" gives exactly three nodes: a
\* level-1 Heading with text "Title", a spacer, and a Paragraph whose runs
\* are "Hello " (not bold) and "world" (bold).
C15_TitleHelloNodes ==
  (pc = "done" /\ markdown = TitleHello) =>
    /\ result.kind = "blob"
    /\ Len(result.children) = 3
    /\ result.children[1].node.kind = "Heading"
    /\ result.children[1].node.level = 1
    /\ result.children[1].node.text = <<"T", "i", "t", "l", "e">>
    /\ result.children[2].node = Spacer
    /\ result.children[3].node.kind = "Paragraph"
    /\ [r \in 1..Len(result.children[3].node.runs) |->
          <<result.children[3].node.runs[r].text, result.children[3].node.runs[r].bold>>]
         = << <<<<"H", "e", "l", "l", "o", " ">>, FALSE>>, <<<<"w", "o", "r", "l", "d">>, TRUE>> >>

C15_TitleHelloConverted ==
  pc = "done" /\ markdown = TitleHello /\ options = defaultOptions /\ Len(docChildren) = 3

\* C16: every Table node has, in every row, as many cells as it has headers.
C16_RowsMatchHeader ==
  \A k \in TableNodes :
    \A r \in 1..Len(docChildren[k].node.rows) :
      Len(docChildren[k].node.rows[r]) = Len(docChildren[k].node.headers)

\* The lines of a text that are not empty, in order.
NonEmptyLines(text) == SelectSeq(Split(text, NL), LAMBDA l : l # <<>>)

\* C17: at the step that ends the loop, an open code block with buffered
\* content is pushed as one CodeBlock node holding every buffered code line,
\* followed by every pending list item; nothing else is pushed, and nothing
\* already pushed changes.
C17_EndOfInputFlush ==
  [][(pc = "loop" /\ pc' = "done") =>
       LET added == SubSeq(docChildren', Len(docChildren) + 1, Len(docChildren'))
           coded == IF inCodeBlock /\ codeBlockContent # <<>> THEN 1 ELSE 0
       IN  /\ SubSeq(docChildren', 1, Len(docChildren)) = docChildren
           /\ Len(added) = coded + Len(listItems)
           /\ SubSeq(added, coded + 1, Len(added)) = listItems
           /\ coded = 1 =>
                /\ added[1].node.kind = "CodeBlock"
                /\ SelectSeq(added[1].node.rawLines, LAMBDA l : l # <<>>)
                     = NonEmptyLines(codeBlockContent)
           /\ result'.children = docChildren']_vars

\* The input has ended with a code block open and list items pending, and
\* both were pushed.
C17_OpenCodeAndPendingItems ==
  /\ pc = "done" /\ markdown.isString
  /\ inCodeBlock /\ NonEmptyLines(codeBlockContent) # <<>>
  /\ listItems # <<>>
  /\ Len(docChildren) >= 1 + Len(listItems)
  /\ docChildren[Len(docChildren) - Len(listItems)].node.kind = "CodeBlock"

\* C18: while a fetch is pending the loop is suspended at its image line:
\* the cursor, the nodes and the parse state do not change.  A fetch starts
\* only when none is pending, at the image line under the cursor, and the
\* cursor never moves back, so fetches start in the order of their lines; the
\* cursor passes an image line only when its fetch has ended.
C18_OneFetchAwaitedInPlace ==
  [][/\ fetch = "pending" =>
          /\ pc = "fetch"
          /\ UNCHANGED <<i, docChildren, inList, listItems, inCodeBlock,
                         codeBlockContent, tableIndex, result>>
     /\ (fetch # "pending" /\ fetch' = "pending") =>
          /\ fetch = "none" /\ pc = "loop" /\ pc' = "fetch"
          /\ i' = i /\ i < Len(lines)
          /\ Handler = "image"
     /\ pc = "fetch" =>
          \/ i' = i /\ pc' = "fetch"
          \/ i' = i + 1 /\ fetch \in FetchOutcomes /\ fetch' = "none" /\ pc' = "loop"
     /\ fetch' # "none" => pc' = "fetch"
     /\ i' >= i]_vars

\* A second fetch is pending after the image of an earlier line was pushed.
C18_SecondFetchPending ==
  /\ pc = "fetch" /\ fetch = "pending"
  /\ {k \in 1..Len(docChildren) :
        docChildren[k].node.kind \in {"Image", "ImageError"} /\ docChildren[k].src < i} # {}

(***************************************************************************)
(* Two calls of convertMarkdownToDocx on one event loop.  A call runs       *)
(* until it awaits the fetch of an image line or returns; then the other   *)
(* call, or the continuation of a settled fetch, may run.  pair holds, per *)
(* call, its argument, its position, its locals, how its fetches ended and *)
(* its result; running is the call that holds the thread, 0 when none.     *)
(***************************************************************************)
MaxPairLines == 2

PairLines == {LImage, LItem, LFence}

PairDocs ==
  SeqsUpTo(PairLines, 1, MaxPairLines)
    \cup {<<LItem, LImage, LImage>>, <<LItem, LHeader, LSep, LImage>>,
          <<LImage, LFence, LText>>}

PairInputs == {[isString |-> TRUE, chars |-> Join(d, NL)] : d \in PairDocs}

\* How a fetch of one of the two calls ends; processImage treats every
\* failure alike.
PairOutcomes == {"ok", "not_ok"}

Calls == {1, 2}

\* The locals before the call has allocated them.
NoLocals == [Started(NonString, defaultOptions) EXCEPT !.lines = <<>>]

\* A variant in which inList and listItems are module-level variables that
\* both calls write.
PutCall_shared(p, k, c) ==
  [p EXCEPT !.calls = [j \in Calls |->
                         IF j = k THEN c
                         ELSE [p.calls[j] EXCEPT !.inList = c.inList,
                                                 !.listItems = c.listItems]]]

\* The locals are declared with let and const inside the call: a write of
\* call k changes the locals of call k only.
PutCall(p, k, c) == [p EXCEPT !.calls[k] = c]

PairInit ==
  /\ \E m1 \in PairInputs, m2 \in PairInputs :
       pair = [mds |-> <<m1, m2>>, pcs |-> <<"call", "call">>,
               calls |-> <<NoLocals, NoLocals>>, outs |-> <<<<>>, <<>>>>,
               results |-> <<[kind |-> "none"], [kind |-> "none"]>>, running |-> 0]
  /\ markdown = NonString
  /\ options = defaultOptions
  /\ log = <<>>
  /\ pc = "done"
  /\ lines = <<>>
  /\ i = 0
  /\ docChildren = <<>>
  /\ inList = FALSE
  /\ listItems = <<>>
  /\ inCodeBlock = FALSE
  /\ codeBlockContent = <<>>
  /\ codeBlockLanguage = <<>>
  /\ tableIndex = 0
  /\ tables = <<>>
  /\ fetch = "none"
  /\ result = [kind |-> "none"]
  /\ fmtLine = <<>>
  /\ fmtPc = "done"
  /\ fmtState = FmtStart
  /\ fmtResult = <<>>

\* Call k is made while no call holds the thread: it allocates its locals.
PairCall(k) ==
  /\ pair.running = 0
  /\ pair.pcs[k] = "call"
  /\ pair' = [PutCall(pair, k, Started(pair.mds[k], defaultOptions))
                EXCEPT !.pcs[k] = "loop", !.running = k]
  /\ UNCHANGED <<convVars, fmtVars>>

\* Call k handles a line that is no image line.
PairLine(k) ==
  /\ pair.running = k
  /\ pair.pcs[k] = "loop"
  /\ pair.calls[k].i < Len(pair.calls[k].lines)
  /\ HandlerOf(pair.calls[k]) # "image"
  /\ pair' = PutCall(pair, k, Handled(pair.calls[k], "ok"))
  /\ UNCHANGED <<convVars, fmtVars>>

\* Call k reaches an image line: the list is flushed at a table marker, the
\* fetch is started and the call leaves the thread.
PairAwait(k) ==
  /\ pair.running = k
  /\ pair.pcs[k] = "loop"
  /\ pair.calls[k].i < Len(pair.calls[k].lines)
  /\ HandlerOf(pair.calls[k]) = "image"
  /\ pair' = [PutCall(pair, k, IF MarkerAt(pair.calls[k]) THEN FlushList(pair.calls[k])
                               ELSE pair.calls[k])
                EXCEPT !.pcs[k] = "fetch", !.running = 0]
  /\ UNCHANGED <<convVars, fmtVars>>

\* The fetch of call k has ended and its continuation takes the free thread.
PairResume(k) ==
  /\ pair.running = 0
  /\ pair.pcs[k] = "fetch"
  /\ \E outcome \in PairOutcomes :
       pair' = [PutCall(pair, k, Handled(pair.calls[k], outcome))
                  EXCEPT !.pcs[k] = "loop", !.running = k,
                         !.outs[k] = Append(@, outcome)]
  /\ UNCHANGED <<convVars, fmtVars>>

\* Call k leaves the loop, pushes what remains and returns its blob.
PairReturn(k) ==
  /\ pair.running = k
  /\ pair.pcs[k] = "loop"
  /\ pair.calls[k].i >= Len(pair.calls[k].lines)
  /\ pair' = [PutCall(pair, k, [pair.calls[k] EXCEPT !.docChildren = @ \o Remaining(pair.calls[k])])
                EXCEPT !.pcs[k] = "done", !.running = 0,
                       !.results[k] = [kind |-> "blob",
                                       children |-> pair.calls[k].docChildren
                                                      \o Remaining(pair.calls[k])]]
  /\ UNCHANGED <<convVars, fmtVars>>

PairNext ==
  \/ \E k \in Calls : PairCall(k)
  \/ \E k \in Calls : PairLine(k)
  \/ \E k \in Calls : PairAwait(k)
  \/ \E k \in Calls : PairResume(k)
  \/ \E k \in Calls : PairReturn(k)

PairSpec == PairInit /\ [][PairNext]_vars

\* C19: in every step of two interleaved calls, the locals of a call change
\* only in a step of that call, and a call that returns returns the nodes
\* it returns when run alone with the same fetch outcomes.
C19_CallsDoNotInterfere ==
  [][\A k \in Calls :
       /\ (pair.running # k /\ pair'.running # k) => pair'.calls[k] = pair.calls[k]
       /\ pair'.pcs[k] = "done" =>
            /\ pair'.results[k].kind = "blob"
            /\ pair'.results[k].children =
                 RunAlone(Started(pair.mds[k], defaultOptions), pair'.outs[k])]_vars

\* The second call has returned, after a fetch of its own, while the first
\* call awaits a fetch with a list item pending.
C19_ReturnedWhileOtherAwaits ==
  /\ pair.pcs = <<"fetch", "done">>
  /\ pair.outs[2] # <<>>
  /\ pair.calls[1].listItems # <<>>
  /\ pair.calls[2].listItems # pair.calls[1].listItems
  /\ pair.results[2].kind = "blob"

\* The argument is a non-empty string and every field of the style is in
\* its range.
NonEmptyInRange ==
  markdown.isString /\ markdown.chars # <<>> /\ OutOfRangeFields(options.style) = {}

\* C20: for a non-empty markdown string and an in-range style, every
\* iteration of the loop moves the cursor forward, or awaits the fetch of
\* its image line and then moves it, without a result being set; past the
\* last line the nodes are handed to the assembly and the call ends with a
\* blob built from them.  No step raises.
C20_LoopEndsInBlob ==
  [][NonEmptyInRange =>
       /\ pc = "call" => pc' = "loop" /\ i' = 0
       /\ (pc = "loop" /\ i < Len(lines)) =>
            /\ (pc' = "loop" /\ i' > i) \/ (pc' = "fetch" /\ i' = i)
            /\ result' = [kind |-> "none"]
       /\ pc = "fetch" =>
            /\ (pc' = "loop" /\ i' = i + 1) \/ (pc' = "fetch" /\ i' = i)
            /\ result' = [kind |-> "none"]
       /\ (pc = "loop" /\ i >= Len(lines)) =>
            /\ pc' = "done"
            /\ result'.kind = "blob"
            /\ result'.children = docChildren'
       /\ pc # "done"]_vars

\* The text "[TOC]", "\pagebreak" was converted: both lines are paragraphs
\* of the blob.
C20_TocAndPageBreakConverted ==
  /\ pc = "done"
  /\ lines = <<LToc, LPageBreak>>
  /\ NonEmptyInRange
  /\ result.kind = "blob"
  /\ Len(result.children) = 2
  /\ \A k \in 1..2 : result.children[k].node.kind = "Paragraph"

(***************************************************************************)
(* Properties of code-block mode and of the fences, under Spec.            *)
(***************************************************************************)

\* The cursor is at a line inside a code block that is neither a fence nor
\* blank; lines[i + 1] is the line as it stands in the source.
AtCodeLine ==
  /\ pc = "loop" /\ i < Len(lines) /\ inCodeBlock
  /\ Trim(lines[i + 1]) # <<>>
  /\ ~StartsWith(Trim(lines[i + 1]), Fence)

\* C21: a line that is neither a fence nor blank, met in code-block mode, is
\* appended to the code buffer verbatim: after the step the buffer ends with
\* the source line, its leading whitespace included.
C21_CodeLineVerbatim ==
  [][AtCodeLine =>
       /\ Len(codeBlockContent') >= Len(lines[i + 1])
       /\ SubSeq(codeBlockContent', Len(codeBlockContent') - Len(lines[i + 1]) + 1,
                 Len(codeBlockContent')) = lines[i + 1]]_vars

\* The same for the source line without the whitespace at its ends: holds.
C21_CodeLineTrimmed ==
  [][AtCodeLine =>
       /\ Len(codeBlockContent') >= Len(Trim(lines[i + 1]))
       /\ SubSeq(codeBlockContent', Len(codeBlockContent') - Len(Trim(lines[i + 1])) + 1,
                 Len(codeBlockContent')) = Trim(lines[i + 1])]_vars

\* C22: in code-block mode a blank line only appends a newline to the code
\* buffer: no node is pushed, the pending list items stay pending and list
\* mode stays as it is.
C22_BlankInCodeOnlyNewline ==
  [][(pc = "loop" /\ i < Len(lines) /\ inCodeBlock /\ Trim(lines[i + 1]) = <<>>) =>
       /\ codeBlockContent' = Append(codeBlockContent, NL)
       /\ docChildren' = docChildren
       /\ listItems' = listItems
       /\ inList' = inList]_vars

\* What the step does keep: the newline is appended and the code block
\* stays open.
C22_BlankInCodeAppendsNewline ==
  [][(pc = "loop" /\ i < Len(lines) /\ inCodeBlock /\ Trim(lines[i + 1]) = <<>>) =>
       /\ codeBlockContent' = Append(codeBlockContent, NL)
       /\ inCodeBlock' /\ i' = i + 1]_vars

\* The cursor is at a fence line.
AtFenceLine ==
  pc = "loop" /\ i < Len(lines) /\ StartsWith(Trim(lines[i + 1]), Fence)

\* C23: a fence line met outside code-block mode enters it, records the text
\* after the three backticks as the language and pushes nothing; a fence
\* line met in code-block mode leaves it, pushes exactly one CodeBlock node
\* with the buffered lines and the recorded language, and empties the buffer
\* and the language.  So the fence lines alternate between open and close.
C23_FencesAlternate ==
  [][AtFenceLine =>
       /\ i' = i + 1
       /\ inCodeBlock' = ~inCodeBlock
       /\ listItems' = listItems /\ inList' = inList
       /\ ~inCodeBlock =>
            /\ codeBlockLanguage' = Trim(SubSeq(Trim(lines[i + 1]), 4, Len(Trim(lines[i + 1]))))
            /\ docChildren' = docChildren
       /\ inCodeBlock =>
            /\ Len(docChildren') = Len(docChildren) + 1
            /\ SubSeq(docChildren', 1, Len(docChildren)) = docChildren
            /\ docChildren'[Len(docChildren')].src = i
            /\ docChildren'[Len(docChildren')].node.kind = "CodeBlock"
            /\ docChildren'[Len(docChildren')].node.language = codeBlockLanguage
            /\ SelectSeq(docChildren'[Len(docChildren')].node.rawLines, LAMBDA l : l # <<>>)
                 = NonEmptyLines(codeBlockContent)
            /\ codeBlockContent' = <<>>
            /\ codeBlockLanguage' = <<>>]_vars

\* A block opened with the language js was closed into a CodeBlock with one
\* line, and the next fence has opened a block again.
C23_ClosedAndOpenedAgain ==
  /\ pc = "done" /\ inCodeBlock
  /\ {k \in 1..Len(docChildren) :
        /\ docChildren[k].node.kind = "CodeBlock"
        /\ docChildren[k].node.language = <<"j", "s">>
        /\ docChildren[k].node.rawLines = <<<<"y">>>>} # {}

(***************************************************************************)
(* Properties of the heading, table and list handlers, under Spec.         *)
(***************************************************************************)

HeadingNodes == {k \in 1..Len(docChildren) : docChildren[k].node.kind = "Heading"}

\* C24: no Heading node comes from a line whose run of hashes is followed
\* directly by a character other than a space, such as "#a".
C24_HeadingNeedsSpace ==
  \A k \in HeadingNodes :
    LET ln == Trim(lines[docChildren[k].src + 1])
        n  == HashCount(ln)
    IN  ~(Len(ln) > n /\ ln[n + 1] # " ")

\* What does hold: a Heading node comes from a line that starts with one to
\* five hashes.
C24_HeadingHasOneToFiveHashes ==
  \A k \in HeadingNodes :
    HashCount(Trim(lines[docChildren[k].src + 1])) \in 1..5

\* C25: the step that emits a Table node for the marker line at index i moves
\* the cursor to i + 2 + the number of body rows of the block that starts at
\* line i, that is to the first line after the block.
C25_CursorPastTableBlock ==
  [][(pc = "loop" /\ i < Len(lines) /\ Handler = "table") =>
       i' = RowsEnd(lines, i + 2)]_vars

\* The same in a text without code fences whose pipe blocks are well-formed:
\* holds.
C25_CursorPastWellFormedBlock ==
  [][(/\ pc = "loop" /\ i < Len(lines) /\ Handler = "table"
      /\ WellFormedTables(lines)
      /\ \A n \in 1..Len(lines) : ~StartsWith(Trim(lines[n]), Fence)) =>
       i' = RowsEnd(lines, i + 2)]_vars

\* The line after the cursor's line, trimmed; empty when there is none.
NextTrimmed == IF i + 1 < Len(lines) THEN Trim(lines[i + 2]) ELSE <<>>

\* The cursor is at an unordered list item line outside a code block.
AtUnorderedItem ==
  /\ pc = "loop" /\ i < Len(lines) /\ ~inCodeBlock
  /\ \/ StartsWith(Trim(lines[i + 1]), <<"-", " ">>)
     \/ StartsWith(Trim(lines[i + 1]), <<"*", " ">>)

\* C26: after an unordered item line the next line is consumed with the item
\* (the cursor moves two lines) exactly when its trimmed form starts with
\* "**" and ends with "**"; otherwise the cursor moves one line and the next
\* line is dispatched on its own.
C26_BoldContinuationIsWrapped ==
  [][AtUnorderedItem =>
       IF /\ i + 1 < Len(lines)
          /\ StartsWith(NextTrimmed, <<"*", "*">>)
          /\ EndsWith(NextTrimmed, <<"*", "*">>)
       THEN i' = i + 2
       ELSE i' = i + 1]_vars

\* What does hold: the next line is consumed exactly when its trimmed form
\* starts with "**".
C26_BoldContinuationStartsBold ==
  [][AtUnorderedItem =>
       IF i + 1 < Len(lines) /\ StartsWith(NextTrimmed, <<"*", "*">>)
       THEN i' = i + 2
       ELSE i' = i + 1]_vars

\* C27: the item pushed for a line with a "- " or "* " prefix has as its text
\* the trimmed line without its first two characters (compared up to the
\* whitespace at the ends): the characters of the content are kept.
C27_OnlyMarkerRemoved ==
  [][AtUnorderedItem =>
       /\ Len(listItems') = Len(listItems) + 1
       /\ Trim(listItems'[Len(listItems')].node.text)
            = Trim(Slice(Trim(lines[i + 1]), 2))]_vars

\* The same for a content that does not begin with "-", "*" or a blank:
\* holds.
C27_PlainContentKept ==
  [][(AtUnorderedItem /\ Len(Trim(lines[i + 1])) > 2
        /\ Trim(lines[i + 1])[3] \notin {"-", "*", " "}) =>
       /\ Len(listItems') = Len(listItems) + 1
       /\ Trim(listItems'[Len(listItems')].node.text)
            = Trim(Slice(Trim(lines[i + 1]), 2))]_vars

\* C28: the item pushed for an ordered-list line (digits, a dot, a space)
\* differs from the item an unordered line with the same text gets.
C28_OrderedItemIsNotBullet ==
  [][(pc = "loop" /\ i < Len(lines) /\ Handler = "olist") =>
       /\ Len(listItems') = Len(listItems) + 1
       /\ listItems'[Len(listItems')].node #
            processListItem(listItems'[Len(listItems')].node.text, <<>>, FALSE, style)]_vars

\* What does hold: the line is buffered as an item whose text is the line
\* without its numeric prefix, and list mode is on.
C28_OrderedItemBuffered ==
  [][(pc = "loop" /\ i < Len(lines) /\ Handler = "olist") =>
       /\ Len(listItems') = Len(listItems) + 1
       /\ listItems'[Len(listItems')].node.kind = "ListItem"
       /\ listItems'[Len(listItems')].node.text = Trim(Slice(line, OrderedPrefix(line)))
       /\ inList']_vars

(***************************************************************************)
(* Properties of blank lines and of heading spacing, under Spec.           *)
(***************************************************************************)

\* C29: outside code-block mode a blank line appends the pending list items
\* in order, then exactly one spacer; list mode is off and no item is
\* pending afterwards; the code buffer and the table cursor do not change.
C29_BlankFlushesThenSpacer ==
  [][(pc = "loop" /\ i < Len(lines) /\ ~inCodeBlock /\ Trim(lines[i + 1]) = <<>>) =>
       /\ docChildren' = docChildren \o listItems \o <<[src |-> i, node |-> Spacer]>>
       /\ ~inList'
       /\ listItems' = <<>>
       /\ UNCHANGED <<codeBlockContent, codeBlockLanguage, inCodeBlock, tableIndex>>
       /\ i' = i + 1]_vars

\* A blank line has pushed pending items and then its spacer.
C29_ItemsThenSpacer ==
  /\ pc \in {"loop", "done"} /\ ~inList /\ listItems = <<>>
  /\ Len(docChildren) >= 2
  /\ docChildren[Len(docChildren)].node = Spacer
  /\ docChildren[Len(docChildren) - 1].node.kind = "ListItem"
  /\ Trim(lines[docChildren[Len(docChildren)].src + 1]) = <<>>

\* C30: a Heading of level 1 has twice the configured headingSpacing before
\* it and half of it after; a Heading of level 2 to 5 has the configured
\* headingSpacing before and after.  after2 is twice the spacing after.
C30_HeadingSpacing ==
  \A k \in HeadingNodes :
    LET h == docChildren[k].node
    IN  IF h.level = 1
        THEN h.before = 2 * style.headingSpacing /\ h.after2 = style.headingSpacing
        ELSE h.before = style.headingSpacing /\ h.after2 = 2 * style.headingSpacing

\* What does hold: the spacing before is as stated, and the spacing after is
\* half the configured headingSpacing at every level.
C30_HeadingSpacingAfterHalved ==
  \A k \in HeadingNodes :
    LET h == docChildren[k].node
    IN  /\ h.before = IF h.level = 1 THEN 2 * style.headingSpacing ELSE style.headingSpacing
        /\ h.after2 = style.headingSpacing

(***************************************************************************)
(* validateInput on its own: it is applied once to an argument and to       *)
(* options drawn from values at and around the ends of the ranges.         *)
(***************************************************************************)
ValidateStyles ==
  [titleSize : {0 - 5, 0, 7, 8, 72, 73}, headingSpacing : {0 - 1, 0, 720, 721},
   paragraphSpacing : {0 - 1, 0, 720, 721}, lineSpacing : {0 - 100, 0, 99, 100, 300, 301}]

ValidateInputs ==
  {NonString, [isString |-> TRUE, chars |-> <<>>], [isString |-> TRUE, chars |-> LPlain]}

ValidateInit ==
  /\ markdown \in ValidateInputs
  /\ options \in {[documentType |-> "document", style |-> st] : st \in ValidateStyles}
  /\ log = <<>>
  /\ pair = NoPair
  /\ pc = "validate"
  /\ lines = <<>>
  /\ i = 0
  /\ docChildren = <<>>
  /\ inList = FALSE
  /\ listItems = <<>>
  /\ inCodeBlock = FALSE
  /\ codeBlockContent = <<>>
  /\ codeBlockLanguage = <<>>
  /\ tableIndex = 0
  /\ tables = <<>>
  /\ fetch = "none"
  /\ result = [kind |-> "none"]
  /\ fmtLine = <<>>
  /\ fmtPc = "done"
  /\ fmtState = FmtStart
  /\ fmtResult = <<>>

\* validateInput(markdown, options) returns or throws.
Validate ==
  /\ pc = "validate"
  /\ result' = validateInput(markdown, options)
  /\ pc' = "done"
  /\ UNCHANGED <<markdown, options, lines, i, docChildren, inList, listItems, inCodeBlock,
                 codeBlockContent, codeBlockLanguage, tableIndex, tables, fetch, log,
                 fmtVars, pair>>

ValidateNext == Validate

ValidateSpec == ValidateInit /\ [][ValidateNext]_vars

\* C31: for a non-empty string, validateInput raises an error whose context
\* names an offending field when a field of the style is outside its range
\* (titleSize 8..72, the two spacings 0..720, lineSpacing 1..3, the value 0
\* and negative values included), and raises nothing when all are in range.
C31_ValidateRanges ==
  (pc = "done" /\ markdown.isString /\ markdown.chars # <<>>) =>
    IF OutOfRangeFields(options.style) # {}
    THEN /\ result.kind = "error"
         /\ result.name = "MarkdownConversionError"
         /\ result.context \in OutOfRangeFields(options.style)
    ELSE result.kind = "ok"

\* The same for styles none of whose fields is 0: holds.
C31_ValidateNonZero ==
  (/\ pc = "done" /\ markdown.isString /\ markdown.chars # <<>>
   /\ options.style.titleSize # 0 /\ options.style.lineSpacing # 0) =>
    IF OutOfRangeFields(options.style) # {}
    THEN /\ result.kind = "error"
         /\ result.name = "MarkdownConversionError"
         /\ result.context \in OutOfRangeFields(options.style)
    ELSE result.kind = "ok"

(***************************************************************************)
(* Properties of processFormattedText and of collectTables.                *)
(***************************************************************************)

\* C32: each step of processFormattedText toggles at most one of the three
\* flags, and a step that pushes a run pushes exactly one: its text is the
\* text buffered so far, and it is bold exactly when the bold toggle was on
\* before the step and italic exactly when the italic toggle was on, also
\* when it is a code run.
C32_RunsCarryPreToggleFlags ==
  [][/\ Cardinality({f \in {"isBold", "isItalic", "isInlineCode"} :
                       fmtState'[f] # fmtState[f]}) <= 1
     /\ fmtState'.textRuns # fmtState.textRuns =>
          /\ fmtState.currentText # <<>>
          /\ Len(fmtState'.textRuns) = Len(fmtState.textRuns) + 1
          /\ SubSeq(fmtState'.textRuns, 1, Len(fmtState.textRuns)) = fmtState.textRuns
          /\ fmtState'.textRuns[Len(fmtState'.textRuns)].text = fmtState.currentText
          /\ fmtState'.textRuns[Len(fmtState'.textRuns)].code = fmtState.isInlineCode
          /\ fmtState'.textRuns[Len(fmtState'.textRuns)].bold = fmtState.isBold
          /\ fmtState'.textRuns[Len(fmtState'.textRuns)].italics = fmtState.isItalic]_vars

\* The same with the flags of a code run left out: holds.
C32_TextRunsCarryPreToggleFlags ==
  [][/\ Cardinality({f \in {"isBold", "isItalic", "isInlineCode"} :
                       fmtState'[f] # fmtState[f]}) <= 1
     /\ fmtState'.textRuns # fmtState.textRuns =>
          /\ fmtState.currentText # <<>>
          /\ Len(fmtState'.textRuns) = Len(fmtState.textRuns) + 1
          /\ SubSeq(fmtState'.textRuns, 1, Len(fmtState.textRuns)) = fmtState.textRuns
          /\ fmtState'.textRuns[Len(fmtState'.textRuns)].text = fmtState.currentText
          /\ fmtState'.textRuns[Len(fmtState'.textRuns)].code = fmtState.isInlineCode
          /\ ~fmtState.isInlineCode =>
               /\ fmtState'.textRuns[Len(fmtState'.textRuns)].bold = fmtState.isBold
               /\ fmtState'.textRuns[Len(fmtState'.textRuns)].italics = fmtState.isItalic]_vars

\* C33: no header cell of a table returned by collectTables is the empty
\* string.
C33_NoEmptyHeader ==
  \A t \in 1..Len(tables) :
    \A h \in 1..Len(tables[t].headers) : tables[t].headers[h] # <<>>

\* The same for header lines none of whose cells is made of whitespace only:
\* holds.
C33_NoEmptyHeaderOfFilledCells ==
  \A n \in 1..Len(lines) :
    (/\ n < Len(lines)
     /\ IsTableStart(lines, n - 1)
     /\ \A k \in 1..Len(Split(lines[n], "|")) :
          Split(lines[n], "|")[k] = <<>> \/ Trim(Split(lines[n], "|")[k]) # <<>>) =>
      \A h \in 1..Len(TableAt(lines, n - 1).headers) :
        TableAt(lines, n - 1).headers[h] # <<>>

(***************************************************************************)
(* Properties of the loop as a whole, under FaultSpec and Spec.            *)
(***************************************************************************)

\* A bound on the steps the call has left: three per line not yet passed,
\* less where the call is in its iteration.
StepsLeft ==
  LET left == IF i < Len(lines) THEN Len(lines) - i ELSE 0
  IN  CASE pc = "done" -> 0
        [] pc = "catch" -> 1
        [] pc = "call" -> 3 * (Len(markdown.chars) + 1) + 4
        [] pc = "fetch" /\ fetch = "pending" -> 3 * left + 2
        [] pc = "fetch" /\ fetch # "pending" -> 3 * left + 1
        [] OTHER -> 3 * left + 3

\* The lines up to the one after the cursor's line.
LinesInSight == SubSeq(lines, 1, IF i + 2 <= Len(lines) THEN i + 2 ELSE Len(lines))

\* C34: the loop moves forward only.  Every iteration ends with a larger line
\* index, so no line is dispatched twice; what an iteration does is fixed by
\* the locals and the lines up to the one after the cursor's line; and every
\* step of the call lowers a bound on the steps left, so a call whose fetches
\* end returns or raises after finitely many steps.
C34_ForwardOnly ==
  [][/\ (pc \in {"loop", "fetch"} /\ pc' = "loop") => i' > i
     /\ pc \in {"loop", "fetch"} => i' >= i
     /\ (pc \in {"loop", "fetch"} /\ pc' = "loop" /\ log' = log) =>
          [Locals' EXCEPT !.lines = LinesInSight]
            = Handled([Locals EXCEPT !.lines = LinesInSight],
                      IF pc = "fetch" THEN fetch ELSE "ok")
     /\ StepsLeft' < StepsLeft]_vars

\* The call has returned after a bold continuation was consumed and a
\* fetch was awaited: the cursor stands at the end of the lines.
C34_ReturnedAfterSkips ==
  /\ pc = "done" /\ result.kind = "blob"
  /\ i >= Len(lines) /\ Len(lines) >= 3
  /\ {k \in 1..Len(docChildren) : docChildren[k].node.kind \in {"Image", "ImageError"}} # {}
  /\ {k \in 1..Len(docChildren) :
        docChildren[k].node.kind = "ListItem" /\ docChildren[k].node.boldText # <<>>} # {}

\* C35: a line whose handling raises into the per-line catch is skipped
\* without effect: the output, list mode, the pending items, the code-block
\* mode, buffer and language and the table cursor are as before the line,
\* and the cursor moves to the next line.
C35_FailedLineHasNoEffect ==
  [][log' # log =>
       /\ UNCHANGED <<docChildren, inList, listItems, inCodeBlock, codeBlockContent,
                      codeBlockLanguage, tableIndex>>
       /\ i' = i + 1]_vars

\* What does hold: the nodes already pushed stay, nothing is pushed for the
\* failing line, no pending item is lost and no result is set.
C35_FailedLineKeepsOutput ==
  [][log' # log =>
       /\ SubSeq(docChildren', 1, Len(docChildren)) = docChildren
       /\ NodesOf(docChildren', i) = {}
       /\ docChildren' \o listItems' = docChildren \o listItems
       /\ result' = result
       /\ i' > i]_vars

\* C36: the nodes of the returned document stand in the order of their
\* source lines.
C36_SourceOrder ==
  (pc = "done" /\ result.kind = "blob") =>
    \A k \in 1..Len(result.children) : \A m \in k..Len(result.children) :
      result.children[k].src <= result.children[m].src

\* The same for a text made of blank lines, headings, list items and quotes
\* only: holds.
C36_SourceOrderOfFlushingLines ==
  (/\ pc = "done" /\ result.kind = "blob"
   /\ \A n \in 1..Len(lines) :
        LET ln == Trim(lines[n])
        IN  \/ ln = <<>>
            \/ StartsWith(ln, <<"#">>) /\ HashCount(ln) <= 5
            \/ StartsWith(ln, <<"-", " ">>)
            \/ StartsWith(ln, <<">", " ">>)
            \/ OrderedPrefix(ln) > 0) =>
    \A k \in 1..Len(result.children) : \A m \in k..Len(result.children) :
      result.children[k].src <= result.children[m].src

\* C37: the table cursor stays within 0..tables.length, and at every line
\* that satisfies the table-marker condition outside a code block a
\* pre-scanned table is left: tableIndex < tables.length.
C37_TableCursorInRange ==
  /\ tableIndex >= 0 /\ tableIndex <= Len(tables)
  /\ (pc = "loop" /\ i < Len(lines) /\ ~inCodeBlock /\ IsTableStart(lines, i)) =>
       tableIndex < Len(tables)

\* The loop stands at the second table marker of a text, one table consumed
\* and one left.
C37_AtSecondMarker ==
  /\ pc = "loop" /\ i < Len(lines) /\ ~inCodeBlock /\ IsTableStart(lines, i)
  /\ tableIndex = 1 /\ Len(tables) >= 2

\* C38: at every line boundary of the loop, and at its end, list mode is on
\* exactly when a list item is pending.
C38_ListModeIffPending ==
  (pc \in {"loop", "done"} /\ markdown.isString) => (inList <=> listItems # <<>>)

\* The loop stands at a line boundary with two items pending.
C38_TwoItemsPending ==
  pc = "loop" /\ i < Len(lines) /\ inList /\ Len(listItems) = 2

RECURSIVE ConsumedFrom(_, _)
ConsumedFrom(c, acc) ==
  IF c.i >= Len(c.lines) THEN acc
  ELSE LET h    == HandlerOf(c)
           next == Handled(c, "ok")
       IN  ConsumedFrom(next,
             acc \cup (IF h \in {"blank", "fence", "code"} THEN {c.i} ELSE {})
                 \cup {n \in (c.i + 1)..(next.i - 1) : TRUE})

\* C40: at the end of the conversion every non-blank line that is not part
\* of a table block, code-block content, a fence or a bold continuation has
\* at least one node in the output.
C40_NoLineDropped ==
  (pc = "done" /\ result.kind = "blob") =>
    \A n \in 0..(Len(lines) - 1) :
      n \notin ConsumedFrom(Started(markdown, options), {}) =>
        NodesOf(result.children, n) # {}

\* The same for a line met while no list item is pending: holds.
C40_NoLineDroppedOutsideLists ==
  [][(pc = "loop" /\ i < Len(lines) /\ ~inList /\ pc' = "loop"
        /\ Handler \notin {"blank", "fence", "code", "ulist", "olist"}) =>
       NodesOf(docChildren', i) # {}]_vars

=============================================================================
